---- MODULE Spec2Model ----
(***************************************************************************)
(* Onyx Monero daemon: MinerState (src/daemon/state.py), XMrigController   *)
(* (src/daemon/controller.py) and the IPC command handlers                 *)
(* (src/daemon/server.py) as a state machine of Python threads.            *)
(*                                                                         *)
(* A thread is at a program point pc[t].  One action is one step of one    *)
(* thread: the code between two accesses to shared data that another       *)
(* thread can interleave with.  The body of a `with self._lock:` block is  *)
(* one step, because every other access to those fields takes the lock     *)
(* (the lock-free reads of _handle_status are steps of their own).         *)
(*                                                                         *)
(* MinerState._lock is a threading.Lock: it is not reentrant.  An acquire  *)
(* is enabled only while the lock is free, also for the thread holding it. *)
(***************************************************************************)
EXTENDS Integers, Sequences, FiniteSets, TLC

\* ---------------------------------------------------------------- bounds
\* Threads that call MinerState directly.
MaxCallers == 2
\* Threads of the daemon that run at the same time: one per stop command,
\* one per start command.  Three let a third thread overwrite
\* self.xmrig_process between two reads of a second one while the worker of
\* a first one runs.
MaxThreads == 3
\* Commands of a client that sends one command at a time.
MaxCommands == 3
\* Largest pid a direct caller of MinerState.start_mining passes.
MaxPid == 2
\* Logical cores of the host (psutil.cpu_count), state.py 31.
Cores == 8
\* Direct add_log calls of one run of the callers' harness.
MaxLines == 2
\* Direct add_log calls of one run of the single caller that fills the log
\* buffer (more than the buffer holds).
MaxAppends == 52
\* logical cores of a machine, for the thread shares of the modes
MaxCores == 64

\* ---------------------------------------------------- program constants
\* deque(maxlen=50), state.py 32
LogCapacity == 50

\* MiningMode, state.py 17-21
STOPPED == "stopped"
BACKGROUND == "background"
MONEY_HUNTER == "money_hunter"
MiningMode == {STOPPED, BACKGROUND, MONEY_HUNTER}
ActiveModes == {BACKGROUND, MONEY_HUNTER}

\* thread ids: the direct callers, the daemon's threads, the threads of the
\* commands sent one at a time
Callers == 1..MaxCallers
Threads == 1..MaxThreads
Commands == 1..MaxCommands
AllThreads == Callers \cup Threads \cup Commands

VARIABLES
    \* MinerState (state.py 26-35)
    lock,            \* _lock: 0 free, else the thread holding it
    mode,            \* _mode
    xmrig_pid,       \* _xmrig_pid: 0 is None
    threads_active,  \* _threads_active
    total_threads,   \* _total_threads
    log_buffer,      \* _log_buffer: sequence of entries, oldest first
    last_error,      \* _last_error: "None" or the message
    start_time,      \* _start_time: "None" or "set"
    hashrate,        \* _hashrate: "None" or the text
    \* the threads
    pc,              \* program point of each thread
    op,              \* the operation a thread was started for
    ret,             \* value returned by the last call that returned
    cont,            \* program point a MinerState call returns to
    nest,            \* the MinerState method add_log was called from
    msg,             \* the message of the thread's pending add_log
    tmode,           \* the mode argument of the thread's operation
    appended,        \* number of entries ever appended (names the entries)
    frame,           \* the controller method the thread is in
    tpid,            \* the thread's local `pid`
    tcfg,            \* the MiningConfig the thread was given
    resp,            \* the response sent on the thread's connection
    conn,            \* the thread's connection: "none", "open", "closed"
    request,         \* the request read on the connection, <<>> when none
    sent,            \* number of responses written on the connection
    reply,           \* the response written: a record, <<>> when none
    building,        \* the response dict a handler is building
    data,            \* what recv returned on the connection, <<>> before
    \* XMrigController (controller.py 24-29)
    xmrig_process,   \* the Popen handle: 0 is None, else the worker's pid
    monitor_thread,  \* 0 is None
    stop_monitoring, \* the Event's flag
    \* the host
    proc,            \* launched workers: "none", "alive" or "exited"
    cfg_file,        \* xmrig-runtime.json exists
    stored_config,   \* what ConfigManager.load_config returns
    \* IPCServer (server.py 31)
    running,         \* the accept loop serves connections
    socket_file      \* the file of the server's socket exists

stateVars == <<lock, mode, xmrig_pid, threads_active, total_threads,
               log_buffer, last_error, start_time, hashrate, appended>>
\* the fields of MinerState themselves
fields == <<mode, xmrig_pid, threads_active, total_threads, log_buffer,
            last_error, start_time, hashrate>>
\* what a MinerState call changes of its thread
callVars == <<pc, ret, cont, nest, msg>>
\* the rest of a thread
\* the connection a thread serves, and the server
ipcVars == <<conn, data, request, sent, reply, building, running,
             socket_file>>
localVars == <<op, tmode, frame, tpid, tcfg, resp, ipcVars>>
ctlVars == <<xmrig_process, monitor_thread, stop_monitoring>>
hostVars == <<proc, cfg_file, stored_config>>
\* everything a MinerState method leaves alone
outside == <<localVars, ctlVars, hostVars>>
vars == <<stateVars, callVars, localVars, ctlVars, hostVars>>

\* ------------------------------------------------------------ MinerState

\* MinerState.__init__
StateInit ==
    /\ lock = 0
    /\ mode = STOPPED
    /\ xmrig_pid = 0
    /\ threads_active = 0
    /\ total_threads = Cores
    /\ log_buffer = <<>>
    /\ last_error = "None"
    /\ start_time = "None"
    /\ hashrate = "None"
    /\ appended = 0

\* no thread has started
ThreadsIdle ==
    /\ pc = [t \in AllThreads |-> "idle"]
    /\ op = [t \in AllThreads |-> "none"]
    /\ ret = [t \in AllThreads |-> "none"]
    /\ cont = [t \in AllThreads |-> "idle"]
    /\ nest = [t \in AllThreads |-> "none"]
    /\ msg = [t \in AllThreads |-> <<"none", "none">>]
    /\ tmode = [t \in AllThreads |-> STOPPED]
    /\ frame = [t \in AllThreads |-> "none"]
    /\ tpid = [t \in AllThreads |-> 0]
    /\ tcfg = [t \in AllThreads |-> "none"]
    /\ resp = [t \in AllThreads |-> "none"]
    /\ conn = [t \in AllThreads |-> "none"]
    /\ request = [t \in AllThreads |-> <<>>]
    /\ sent = [t \in AllThreads |-> 0]
    /\ reply = [t \in AllThreads |-> <<>>]
    /\ building = [t \in AllThreads |-> <<>>]
    /\ data = [t \in AllThreads |-> <<>>]

\* no thread has started and the command server accepts connections
ThreadInit == ThreadsIdle /\ running = TRUE /\ socket_file = TRUE

\* XMrigController.__init__ with xmrig found in PATH, and a host with no
\* worker running
CtlInit ==
    /\ xmrig_process = 0
    /\ monitor_thread = 0
    /\ stop_monitoring = FALSE
    /\ proc = [p \in AllThreads |-> "none"]
    /\ cfg_file = FALSE

\* Variant of DequeAppend: a deque with no maxlen.
DequeAppendUnbounded(q, e) == Append(q, e)

\* deque(maxlen=50).append: the oldest entry leaves when the deque is full
DequeAppend(q, e) ==
    IF Len(q) >= LogCapacity THEN Append(Tail(q), e) ELSE Append(q, e)

\* A call returns value v to program point k of thread t.
Return(t, v, k) ==
    /\ pc' = [pc EXCEPT ![t] = k]
    /\ ret' = [ret EXCEPT ![t] = v]

\* self.add_log(text) called at a point where the caller holds what `by`
\* says: "none" for a call from outside MinerState, else the method whose
\* `with self._lock:` block makes the call.
EnterAddLog(t, text, by, k) ==
    /\ pc' = [pc EXCEPT ![t] = "add_log"]
    /\ msg' = [msg EXCEPT ![t] = text]
    /\ nest' = [nest EXCEPT ![t] = by]
    /\ cont' = [cont EXCEPT ![t] = k]

\* MinerState.add_log from its `with self._lock:` on: acquire, append,
\* release, return.  When a locked method made the call, that method's own
\* block ends next: it releases the lock and returns True (start_mining,
\* stop_mining) or None (set_error).
AddLog(t) ==
    /\ pc[t] = "add_log"
    /\ lock = 0
    /\ log_buffer' = DequeAppend(log_buffer,
                                 [n |-> appended + 1, text |-> msg[t]])
    /\ appended' = appended + 1
    /\ lock' = 0
    /\ Return(t, IF nest[t] \in {"start_mining", "stop_mining"}
                 THEN "True" ELSE "None", cont[t])
    /\ UNCHANGED <<mode, xmrig_pid, threads_active, total_threads,
                   last_error, start_time, hashrate, cont, nest, msg, outside>>

\* Variant of StateStartMining: the pid is not recorded.
StateStartMiningNoPid(t, m, pid, thr, k) ==
    IF m = STOPPED
    THEN /\ Return(t, "False", k)
         /\ UNCHANGED <<stateVars, cont, nest, msg>>
    ELSE /\ lock = 0
         /\ lock' = t
         /\ mode' = m
         /\ threads_active' = thr
         /\ start_time' = "set"
         /\ last_error' = "None"
         /\ hashrate' = "None"
         /\ EnterAddLog(t, <<"Mining started", m>>, "start_mining", k)
         /\ UNCHANGED <<xmrig_pid, total_threads, log_buffer, appended, ret>>

\* Variant of StateStartMining: the fields are written without waiting for
\* the lock.
StateStartMiningNoLock(t, m, pid, thr, k) ==
    IF m = STOPPED
    THEN /\ Return(t, "False", k)
         /\ UNCHANGED <<stateVars, cont, nest, msg>>
    ELSE /\ lock' = t
         /\ mode' = m
         /\ xmrig_pid' = pid
         /\ threads_active' = thr
         /\ start_time' = "set"
         /\ last_error' = "None"
         /\ hashrate' = "None"
         /\ EnterAddLog(t, <<"Mining started", m>>, "start_mining", k)
         /\ UNCHANGED <<total_threads, log_buffer, appended, ret>>

\* Variant of StateStartMining: the start timestamp is not taken.
StateStartMiningNoTime(t, m, pid, thr, k) ==
    IF m = STOPPED
    THEN /\ Return(t, "False", k)
         /\ UNCHANGED <<stateVars, cont, nest, msg>>
    ELSE /\ lock = 0
         /\ lock' = t
         /\ mode' = m
         /\ xmrig_pid' = pid
         /\ threads_active' = thr
         /\ last_error' = "None"
         /\ hashrate' = "None"
         /\ EnterAddLog(t, <<"Mining started", m>>, "start_mining", k)
         /\ UNCHANGED <<total_threads, log_buffer, appended, ret, start_time>>

\* MinerState.start_mining(m, pid, thr), returning to k
StateStartMining(t, m, pid, thr, k) ==
    IF m = STOPPED
    THEN /\ Return(t, "False", k)
         /\ UNCHANGED <<stateVars, cont, nest, msg>>
    ELSE /\ lock = 0
         /\ lock' = t
         /\ mode' = m
         /\ xmrig_pid' = pid
         /\ threads_active' = thr
         /\ start_time' = "set"
         /\ last_error' = "None"
         /\ hashrate' = "None"
         /\ EnterAddLog(t, <<"Mining started", m>>, "start_mining", k)
         /\ UNCHANGED <<total_threads, log_buffer, appended, ret>>

\* Variant of StateStopMining: no check of the mode.
StateStopMiningNoGuard(t, reason, k) ==
    /\ lock = 0
    /\ lock' = t
    /\ mode' = STOPPED
    /\ xmrig_pid' = 0
    /\ threads_active' = 0
    /\ start_time' = "None"
    /\ hashrate' = "None"
    /\ EnterAddLog(t, <<"Mining stopped", reason>>, "stop_mining", k)
    /\ UNCHANGED <<total_threads, log_buffer, appended, last_error, ret>>

\* MinerState.stop_mining(reason), returning to k
StateStopMining(t, reason, k) ==
    /\ lock = 0
    /\ IF mode = STOPPED
       THEN /\ Return(t, "False", k)
            /\ UNCHANGED <<stateVars, cont, nest, msg>>
       ELSE /\ lock' = t
            /\ mode' = STOPPED
            /\ xmrig_pid' = 0
            /\ threads_active' = 0
            /\ start_time' = "None"
            /\ hashrate' = "None"
            /\ EnterAddLog(t, <<"Mining stopped", reason>>, "stop_mining", k)
            /\ UNCHANGED <<total_threads, log_buffer, appended, last_error, ret>>

\* MinerState.set_error(error), returning to k
StateSetError(t, error, k) ==
    /\ lock = 0
    /\ lock' = t
    /\ last_error' = error
    /\ EnterAddLog(t, <<"ERROR", error>>, "set_error", k)
    /\ UNCHANGED <<mode, xmrig_pid, threads_active, total_threads, log_buffer,
                   appended, start_time, hashrate, ret>>

\* MinerState.clear_error(), returning to k
StateClearError(t, k) ==
    /\ lock = 0
    /\ last_error' = "None"
    /\ Return(t, "None", k)
    /\ UNCHANGED <<lock, mode, xmrig_pid, threads_active, total_threads,
                   log_buffer, appended, start_time, hashrate, cont, nest, msg>>

\* MinerState.update_hashrate(h), returning to k
StateUpdateHashrate(t, h, k) ==
    /\ lock = 0
    /\ hashrate' = h
    /\ Return(t, "None", k)
    /\ UNCHANGED <<lock, mode, xmrig_pid, threads_active, total_threads,
                   log_buffer, appended, start_time, last_error, cont, nest, msg>>

\* self.is_mining read at a point where the caller holds what `by` says:
\* "none" for a read from outside MinerState, "get_status_dict" for the reads
\* of line 158 and 163, inside the `with self._lock:` of line 157
EnterIsMining(t, by, k) ==
    /\ pc' = [pc EXCEPT ![t] = "is_mining"]
    /\ nest' = [nest EXCEPT ![t] = by]
    /\ cont' = [cont EXCEPT ![t] = k]

\* the property is_mining (line 45-49): acquire, read _mode and _xmrig_pid,
\* release.  When get_status_dict made the read, its dict is built from the
\* fields next, its block ends and the dict is returned.
PropIsMining(t) ==
    /\ pc[t] = "is_mining"
    /\ lock = 0
    /\ Return(t, IF nest[t] = "get_status_dict" THEN "dict"
                 ELSE IF mode # STOPPED /\ xmrig_pid # 0 THEN "True"
                 ELSE "False", cont[t])
    /\ UNCHANGED <<stateVars, cont, nest, msg, outside>>

\* MinerState.get_status_dict(), returning to k: line 157 takes the lock;
\* with no start time line 158 skips its read of is_mining and line 163
\* makes the first one, else line 158 makes it
StateGetStatusDict(t, k) ==
    /\ lock = 0
    /\ lock' = t
    /\ EnterIsMining(t, "get_status_dict", k)
    /\ UNCHANGED <<fields, appended, ret, msg>>

\* MinerState.calculate_threads_for_mode(m): <<threads, priority>>.
\* int(n * 0.5) and int(n * 0.8) are the floors of n/2 and 4n/5: the double
\* nearest 0.8 is above 0.8, so the product never falls below an integer.
Max(a, b) == IF a >= b THEN a ELSE b

\* the shares without the lower limit of one thread
calculate_threads_unclamped(m) ==
    IF m = BACKGROUND THEN <<total_threads \div 2, 1>>
    ELSE IF m = MONEY_HUNTER THEN <<(4 * total_threads) \div 5, 3>>
    ELSE <<0, 0>>

calculate_threads_for_mode(m) ==
    IF m = BACKGROUND THEN <<Max(1, total_threads \div 2), 1>>
    ELSE IF m = MONEY_HUNTER THEN <<Max(1, (4 * total_threads) \div 5), 3>>
    ELSE <<0, 0>>

\* ------------------------------------------------------------ MiningConfig
\* A MiningConfig is a record of the three fields is_valid reads (use_ssl
\* and profile_name are stored and returned like them and are read by no
\* check).  A field holds a JSON value: <<"str", text>> or <<"num", text>>.
Str(text) == <<"str", text>>
Num(text) == <<"num", text>>

\* MiningConfig(): the defaults of the dataclass, config.py 19-21
DefaultConfig ==
    [wallet_address |-> Str("YOUR_WALLET_ADDRESS_HERE"),
     pool_url |-> Str("pool.supportxmr.com:443"),
     worker_name |-> Str("onyx-miner")]
\* a configuration with a wallet
Configured == [DefaultConfig EXCEPT !.wallet_address = Str("4wallet")]
\* one whose pool URL has no port
NoPort == [Configured EXCEPT !.pool_url = Str("pool.supportxmr.com")]
Configs == {DefaultConfig, Configured, NoPort}

wallet_address(c) == c.wallet_address
pool_url(c) == c.pool_url
worker_name(c) == c.worker_name
\* `not v`: the empty string and the number 0 are falsy
Falsy(v) == v = Str("") \/ v = Num("0")
\* ":" in url, for the strings of the model
HasColon(url) == url = Str("pool.supportxmr.com:443")

\* MiningConfig.is_valid: <<valid, error>>
\* `":" not in self.pool_url` raises TypeError when the URL is a number:
\* the result is then <<FALSE, "raised">>.
is_valid(c) ==
    IF Falsy(wallet_address(c))
       \/ wallet_address(c) = Str("YOUR_WALLET_ADDRESS_HERE")
    THEN <<FALSE, "Wallet address must be configured">>
    ELSE IF Falsy(pool_url(c)) THEN <<FALSE, "Pool URL is required">>
    ELSE IF pool_url(c)[1] # "str" THEN <<FALSE, "raised">>
    ELSE IF ~HasColon(pool_url(c)) THEN <<FALSE, "Pool URL must include port">>
    ELSE IF Falsy(worker_name(c)) THEN <<FALSE, "Worker name is required">>
    ELSE <<TRUE, "">>

\* -------------------------------------------------------- XMrigController
\* Program points of a thread inside the controller:
\*   cs_*  start_mining          qs_*  _quick_stop_mining
\*   sp_*  stop_mining           im_*  is_mining
\* frame[t] is the method that called is_mining.

Goto(t, k) == pc' = [pc EXCEPT ![t] = k]

\* _handle_client, server.py 148-149 and the end of `with client_socket:`:
\* the response r is written on the connection of thread t, which is then
\* closed
Respond(t, r) ==
    /\ reply' = [reply EXCEPT ![t] = r]
    /\ sent' = [sent EXCEPT ![t] = sent[t] + 1]
    /\ conn' = [conn EXCEPT ![t] = "closed"]

\* The thread goes on at k inside the same call.
Step(t, k) ==
    Goto(t, k) /\ UNCHANGED <<ret, resp, ipcVars, frame, tpid, tmode, tcfg>>

\* The thread's top-level call is over: a direct call returns or raises (v)
\* to its caller; the thread of a start command ends (start_mining_async
\* logs a False result and an exception alike, server.py 223-229); the
\* handler of a stop command answers (server.py 238-240, and
\* _process_request for an exception, server.py 172-176).
Finish(t, v) ==
    /\ pc' = [pc EXCEPT ![t] =
                IF op[t] = "shutdown" /\ v # "raised" THEN "sd_sweep"
                ELSE "done"]
    /\ ret' = [ret EXCEPT ![t] = v]
    /\ resp' = [resp EXCEPT ![t] =
                  IF op[t] = "cmd_stop"
                  THEN (IF v = "True" THEN "Mining stopped"
                        ELSE "Command failed")
                  ELSE resp[t]]
    /\ IF op[t] = "cmd_stop"
       THEN /\ Respond(t, IF v = "True"
                          THEN [ok |-> TRUE, message |-> "Mining stopped"]
                          ELSE IF v = "raised"
                          THEN [ok |-> FALSE,
                                error |-> "Command failed: AttributeError"]
                          ELSE [ok |-> FALSE,
                                error |-> "Failed to stop mining"])
            /\ UNCHANGED <<data, request, building, running, socket_file>>
       ELSE UNCHANGED ipcVars
    /\ frame' = [frame EXCEPT ![t] = "none"]
    /\ tpid' = [tpid EXCEPT ![t] = 0]
    /\ tmode' = [tmode EXCEPT ![t] = STOPPED]
    /\ tcfg' = [tcfg EXCEPT ![t] = "none"]

\* An exception leaves a controller method through a frame with no handler.
Raise(t) == Finish(t, "raised")

\* is_mining() returns b to the method that called it.
IsMiningReturn(t, b) ==
    IF frame[t] = "start_mining"
    THEN \* start_mining line 62-63: True calls _quick_stop_mining, which
         \* calls is_mining again (line 116)
         /\ Goto(t, IF b THEN "im_check" ELSE "cs_config")
         /\ frame' = [frame EXCEPT ![t] =
                        IF b THEN "_quick_stop_mining" ELSE "start_mining"]
         /\ UNCHANGED <<ret, resp, ipcVars, tpid, tmode, tcfg>>
    ELSE IF frame[t] = "_quick_stop_mining"
    THEN \* line 116-117: False returns True to start_mining
         /\ Goto(t, IF b THEN "qs_flag" ELSE "cs_config")
         /\ frame' = [frame EXCEPT ![t] =
                        IF b THEN "_quick_stop_mining" ELSE "start_mining"]
         /\ UNCHANGED <<ret, resp, ipcVars, tpid, tmode, tcfg>>
    ELSE IF frame[t] = "shutdown"
    THEN \* shutdown line 328-329: True calls stop_mining, which calls
         \* is_mining again (line 158)
         /\ Goto(t, IF b THEN "im_check" ELSE "sd_sweep")
         /\ frame' = [frame EXCEPT ![t] =
                        IF b THEN "stop_mining" ELSE "shutdown"]
         /\ UNCHANGED <<ret, resp, ipcVars, tpid, tmode, tcfg>>
    ELSE IF frame[t] = "stop_mining"
    THEN \* stop_mining line 158-159: False returns True
         IF b THEN Step(t, "sp_flag") ELSE Finish(t, "True")
    ELSE \* a direct call of is_mining
         Finish(t, IF b THEN "True" ELSE "False")

\* is_mining line 215-216
IsMiningCheck(t) ==
    /\ pc[t] = "im_check"
    /\ IF xmrig_process = 0 THEN IsMiningReturn(t, FALSE)
       ELSE Step(t, "im_poll")
    /\ UNCHANGED <<stateVars, cont, nest, msg, op, ctlVars, hostVars>>

\* is_mining line 219-220 and 227: self.xmrig_process is read again
IsMiningPoll(t) ==
    /\ pc[t] = "im_poll"
    /\ IF xmrig_process = 0 THEN Raise(t)
       ELSE IF proc[xmrig_process] = "exited" THEN Step(t, "im_clear")
       ELSE IsMiningReturn(t, TRUE)
    /\ UNCHANGED <<stateVars, cont, nest, msg, op, ctlVars, hostVars>>

\* is_mining line 223
IsMiningClear(t) ==
    /\ pc[t] = "im_clear"
    /\ xmrig_process' = 0
    /\ Goto(t, "im_stop")
    /\ UNCHANGED <<stateVars, ret, cont, nest, msg, localVars,
                   monitor_thread, stop_monitoring, hostVars>>

\* is_mining line 224
IsMiningStop(t) ==
    /\ pc[t] = "im_stop"
    /\ StateStopMining(t, "Process terminated unexpectedly", "im_ret")
    /\ UNCHANGED outside

\* is_mining line 225
IsMiningFalse(t) ==
    /\ pc[t] = "im_ret"
    /\ IsMiningReturn(t, FALSE)
    /\ UNCHANGED <<stateVars, cont, nest, msg, op, ctlVars, hostVars>>

\* A signal that ends the worker with pid p, if it is still running.
Killed(p) == [proc EXCEPT ![p] = "exited"]

\* Variant of CtlStartMining: no check of the mode.
CtlStartMiningNoGuard(t) ==
    /\ pc[t] = "cs_begin"
    /\ Goto(t, "im_check")
    /\ frame' = [frame EXCEPT ![t] = "start_mining"]
    /\ UNCHANGED <<ret, resp, ipcVars, tpid, tmode, tcfg>>
    /\ UNCHANGED <<stateVars, cont, nest, msg, op, ctlVars, hostVars>>

\* start_mining line 57-62
CtlStartMining(t) ==
    /\ pc[t] = "cs_begin"
    /\ IF tmode[t] = STOPPED
       THEN Finish(t, "False")
       ELSE /\ Goto(t, "im_check")
            /\ frame' = [frame EXCEPT ![t] = "start_mining"]
            /\ UNCHANGED <<ret, resp, ipcVars, tpid, tmode, tcfg>>
    /\ UNCHANGED <<stateVars, cont, nest, msg, op, ctlVars, hostVars>>

\* _quick_stop_mining line 123 and 126
QuickStopFlag(t) ==
    /\ pc[t] = "qs_flag"
    /\ stop_monitoring' = TRUE
    /\ Goto(t, IF xmrig_process = 0 THEN "qs_stop" ELSE "qs_pid")
    /\ UNCHANGED <<stateVars, ret, cont, nest, msg, localVars,
                   xmrig_process, monitor_thread, hostVars>>

\* _quick_stop_mining line 127; an AttributeError goes to line 150-154
QuickStopPid(t) ==
    /\ pc[t] = "qs_pid"
    /\ IF xmrig_process = 0
       THEN /\ Goto(t, "qs_err")
            /\ UNCHANGED tpid
       ELSE /\ Goto(t, "qs_kill")
            /\ tpid' = [tpid EXCEPT ![t] = xmrig_process]
    /\ UNCHANGED <<stateVars, ret, cont, nest, msg, op, tmode, frame, tcfg,
                   resp, ipcVars, ctlVars, hostVars>>

\* _quick_stop_mining line 131-136: SIGKILL to the worker's process group
QuickStopKill(t) ==
    /\ pc[t] = "qs_kill"
    /\ proc' = Killed(tpid[t])
    /\ Goto(t, "qs_clear")
    /\ UNCHANGED <<stateVars, ret, cont, nest, msg, localVars, ctlVars,
                   cfg_file, stored_config>>

\* _quick_stop_mining line 138
QuickStopClear(t) ==
    /\ pc[t] = "qs_clear"
    /\ xmrig_process' = 0
    /\ Goto(t, "qs_stop")
    /\ UNCHANGED <<stateVars, ret, cont, nest, msg, localVars,
                   monitor_thread, stop_monitoring, hostVars>>

\* _quick_stop_mining line 141-148 (no monitor thread to join); start_mining
\* ignores the result and goes on at line 66
QuickStopState(t) ==
    /\ pc[t] = "qs_stop"
    /\ monitor_thread = 0
    /\ StateStopMining(t, "Starting new mode", "cs_config")
    /\ frame' = [frame EXCEPT ![t] = "start_mining"]
    /\ UNCHANGED <<op, tmode, tpid, tcfg, resp, ipcVars, ctlVars, hostVars>>

\* _quick_stop_mining line 150-154
QuickStopError(t) ==
    /\ pc[t] = "qs_err"
    /\ StateSetError(t, "Error quick stopping mining", "cs_config")
    /\ frame' = [frame EXCEPT ![t] = "start_mining"]
    /\ UNCHANGED <<op, tmode, tpid, tcfg, resp, ipcVars, ctlVars, hostVars>>

\* start_mining line 66-82: threads, validation, the worker's config file.
\* Writing the file can fail.
CtlStartConfig(t) ==
    /\ pc[t] = "cs_config"
    /\ IF ~is_valid(tcfg[t])[1]
       THEN /\ Goto(t, "cs_invalid")
            /\ UNCHANGED cfg_file
       ELSE \/ /\ cfg_file' = TRUE
               /\ Goto(t, "cs_popen")
            \/ /\ Goto(t, "cs_except")
               /\ UNCHANGED cfg_file
    /\ UNCHANGED <<stateVars, ret, cont, nest, msg, localVars, ctlVars,
                   proc, stored_config>>

\* start_mining line 70-72
CtlStartInvalid(t) ==
    /\ pc[t] = "cs_invalid"
    /\ StateSetError(t, "Invalid configuration", "cs_false")
    /\ UNCHANGED outside

\* start_mining line 85-93: Popen launches a worker (its pid is named after
\* the launching thread) or raises
CtlStartPopen(t) ==
    /\ pc[t] = "cs_popen"
    /\ \/ /\ proc' = [proc EXCEPT ![t] = "alive"]
          /\ xmrig_process' = t
          /\ Goto(t, "cs_pid")
       \/ /\ Goto(t, "cs_except")
          /\ UNCHANGED <<proc, xmrig_process>>
    /\ UNCHANGED <<stateVars, ret, cont, nest, msg, localVars,
                   monitor_thread, stop_monitoring, cfg_file, stored_config>>

\* start_mining line 96, the argument self.xmrig_process.pid
CtlStartPid(t) ==
    /\ pc[t] = "cs_pid"
    /\ IF xmrig_process = 0
       THEN /\ Goto(t, "cs_except")
            /\ UNCHANGED tpid
       ELSE /\ Goto(t, "cs_state")
            /\ tpid' = [tpid EXCEPT ![t] = xmrig_process]
    /\ UNCHANGED <<stateVars, ret, cont, nest, msg, op, tmode, frame, tcfg,
                   resp, ipcVars, ctlVars, hostVars>>

\* start_mining line 96, the call
CtlStartState(t) ==
    /\ pc[t] = "cs_state"
    /\ StateStartMining(t, tmode[t], tpid[t],
                        calculate_threads_for_mode(tmode[t])[1], "cs_monitor")
    /\ UNCHANGED outside

\* start_mining line 109-110
CtlStartExcept(t) ==
    /\ pc[t] = "cs_except"
    /\ StateSetError(t, "Failed to start xmrig", "cs_false")
    /\ UNCHANGED outside

\* stop_mining line 163 and 166
CtlStopFlag(t) ==
    /\ pc[t] = "sp_flag"
    /\ stop_monitoring' = TRUE
    /\ Goto(t, IF xmrig_process = 0 THEN "sp_pkill" ELSE "sp_pid")
    /\ UNCHANGED <<stateVars, ret, cont, nest, msg, localVars,
                   xmrig_process, monitor_thread, hostVars>>

\* stop_mining line 167; an AttributeError goes to line 207-211
CtlStopPid(t) ==
    /\ pc[t] = "sp_pid"
    /\ IF xmrig_process = 0
       THEN /\ Goto(t, "sp_except")
            /\ UNCHANGED tpid
       ELSE /\ Goto(t, "sp_term")
            /\ tpid' = [tpid EXCEPT ![t] = xmrig_process]
    /\ UNCHANGED <<stateVars, ret, cont, nest, msg, op, tmode, frame, tcfg,
                   resp, ipcVars, ctlVars, hostVars>>

\* stop_mining line 171: SIGTERM to the worker's process group; the worker
\* ends on it, or goes on running
CtlStopTerm(t) ==
    /\ pc[t] = "sp_term"
    /\ \/ proc' = Killed(tpid[t])
       \/ UNCHANGED proc
    /\ Goto(t, "sp_wait")
    /\ UNCHANGED <<stateVars, ret, cont, nest, msg, localVars, ctlVars,
                   cfg_file, stored_config>>

\* stop_mining line 175-179: self.xmrig_process.wait(timeout=5) returns when
\* the worker of the handle has ended and raises TimeoutExpired when it has
\* not
CtlStopWait(t) ==
    /\ pc[t] = "sp_wait"
    /\ Goto(t, IF xmrig_process = 0 THEN "sp_except"
               ELSE IF proc[xmrig_process] = "exited" THEN "sp_clear"
               ELSE "sp_kill")
    /\ UNCHANGED <<stateVars, ret, cont, nest, msg, localVars, ctlVars,
                   hostVars>>

\* stop_mining line 180: SIGKILL to the process group of pid; the worker has
\* ended before the wait of line 181 is over, or has not (a process in an
\* uninterruptible wait)
CtlStopKill(t) ==
    /\ pc[t] = "sp_kill"
    /\ \/ proc' = Killed(tpid[t])
       \/ UNCHANGED proc
    /\ Goto(t, "sp_wait2")
    /\ UNCHANGED <<stateVars, ret, cont, nest, msg, localVars, ctlVars,
                   cfg_file, stored_config>>

\* stop_mining line 181: self.xmrig_process.wait(timeout=2); a
\* TimeoutExpired here goes to line 207-211
CtlStopWait2(t) ==
    /\ pc[t] = "sp_wait2"
    /\ Goto(t, IF xmrig_process # 0 /\ proc[xmrig_process] = "exited"
               THEN "sp_clear" ELSE "sp_except")
    /\ UNCHANGED <<stateVars, ret, cont, nest, msg, localVars, ctlVars,
                   hostVars>>

\* stop_mining line 187
CtlStopClear(t) ==
    /\ pc[t] = "sp_clear"
    /\ xmrig_process' = 0
    /\ Goto(t, "sp_pkill")
    /\ UNCHANGED <<stateVars, ret, cont, nest, msg, localVars,
                   monitor_thread, stop_monitoring, hostVars>>

\* stop_mining line 190, _cleanup_orphaned_processes: pkill -f xmrig sends
\* SIGTERM to every running worker; each ends on it or goes on running
CtlStopSweep(t) ==
    /\ pc[t] = "sp_pkill"
    /\ \E ended \in SUBSET {p \in AllThreads : proc[p] = "alive"} :
         proc' = [p \in AllThreads |->
                    IF p \in ended THEN "exited" ELSE proc[p]]
    /\ Goto(t, "sp_stop")
    /\ UNCHANGED <<stateVars, ret, cont, nest, msg, localVars, ctlVars,
                   cfg_file, stored_config>>

\* stop_mining line 193-197 (no monitor thread to join)
CtlStopState(t) ==
    /\ pc[t] = "sp_stop"
    /\ monitor_thread = 0
    /\ StateStopMining(t, IF op[t] = "shutdown" THEN "Daemon shutdown"
                           ELSE "User requested via IPC", "sp_exists")
    /\ UNCHANGED outside

\* stop_mining line 200-201 and 204-205
CtlStopExists(t) ==
    /\ pc[t] = "sp_exists"
    /\ IF cfg_file THEN Step(t, "sp_unlink") ELSE Finish(t, "True")
    /\ UNCHANGED <<stateVars, cont, nest, msg, op, ctlVars, hostVars>>

\* stop_mining line 202 and 204-205; unlink raises when the file is gone
CtlStopUnlink(t) ==
    /\ pc[t] = "sp_unlink"
    /\ IF cfg_file
       THEN /\ cfg_file' = FALSE
            /\ Finish(t, "True")
       ELSE /\ Step(t, "sp_except")
            /\ UNCHANGED cfg_file
    /\ UNCHANGED <<stateVars, cont, nest, msg, op, ctlVars, proc,
                   stored_config>>

\* stop_mining line 207-209
CtlStopExcept(t) ==
    /\ pc[t] = "sp_except"
    /\ StateSetError(t, "Error stopping mining", "sp_false")
    /\ UNCHANGED outside

\* The worker with pid p ends on its own.
WorkerExit(p) ==
    /\ proc[p] = "alive"
    /\ proc' = Killed(p)
    /\ UNCHANGED <<stateVars, callVars, localVars, ctlVars, cfg_file,
                   stored_config>>

\* one step of a thread inside the controller
CtlStep(t) ==
    \/ IsMiningCheck(t) \/ IsMiningPoll(t) \/ IsMiningClear(t)
    \/ IsMiningStop(t) \/ IsMiningFalse(t)
    \/ CtlStartMining(t)
    \/ QuickStopFlag(t) \/ QuickStopPid(t) \/ QuickStopKill(t)
    \/ QuickStopClear(t) \/ QuickStopState(t) \/ QuickStopError(t)
    \/ CtlStartConfig(t) \/ CtlStartPopen(t)
    \/ CtlStartPid(t) \/ CtlStartState(t) \/ CtlStartExcept(t)
    \/ CtlStopFlag(t) \/ CtlStopPid(t) \/ CtlStopTerm(t) \/ CtlStopWait(t)
    \/ CtlStopKill(t) \/ CtlStopWait2(t) \/ CtlStopClear(t)
    \/ CtlStopSweep(t) \/ CtlStopState(t) \/ CtlStopExists(t)
    \/ CtlStopUnlink(t) \/ CtlStopExcept(t)

\* ------------------------------------------------------------- monitor
\* _monitor_xmrig (controller.py 245-281), the target of the monitor thread.
\* Program points mn_*; tpid[t] is the worker whose output the thread reads.

\* line 247-248: no handle, no monitoring
MonCall(t) ==
    /\ pc[t] = "idle"
    /\ \A u \in AllThreads : u < t => pc[u] # "idle"
    /\ op' = [op EXCEPT ![t] = "monitor"]
    /\ Goto(t, IF xmrig_process = 0 THEN "done" ELSE "mn_loop")
    /\ UNCHANGED <<stateVars, ret, cont, nest, msg, tmode, frame, tpid, tcfg,
                   resp, ipcVars, ctlVars, hostVars>>

\* line 253, after the sleep of line 275: the loop ends when the stop flag is
\* set or the handle is gone
MonLoop(t) ==
    /\ pc[t] = "mn_loop"
    /\ Goto(t, IF stop_monitoring \/ xmrig_process = 0 THEN "done"
               ELSE "mn_poll")
    /\ UNCHANGED <<stateVars, ret, cont, nest, msg, localVars, ctlVars,
                   hostVars>>

\* line 255 and 263-264: poll() of the handle (an AttributeError when it is
\* gone goes to line 277-279); for a running worker, the output stream of
\* the handle is taken for the read
MonPoll(t) ==
    /\ pc[t] = "mn_poll"
    /\ IF xmrig_process = 0
       THEN Goto(t, "mn_error") /\ UNCHANGED tpid
       ELSE IF proc[xmrig_process] = "exited"
       THEN Goto(t, "mn_stop") /\ UNCHANGED tpid
       ELSE /\ Goto(t, "mn_read")
            /\ tpid' = [tpid EXCEPT ![t] = xmrig_process]
    /\ UNCHANGED <<stateVars, ret, cont, nest, msg, op, tmode, frame, tcfg,
                   resp, ipcVars, ctlVars, hostVars>>

\* line 256-257: the worker has ended; the state is stopped and the loop left
MonStop(t) ==
    /\ pc[t] = "mn_stop"
    /\ StateStopMining(t, "Process terminated unexpectedly", "done")
    /\ UNCHANGED outside

\* line 277-279
MonError(t) ==
    /\ pc[t] = "mn_error"
    /\ StateSetError(t, "Monitoring error", "done")
    /\ UNCHANGED outside

\* line 263-265: select returns a tuple of three lists, which is true also
\* when the wait of 1 s ran out with nothing to read, so readline is called
\* in every cycle.  readline returns "" at the end of the stream, when the
\* worker has ended: no output to process (line 265), sleep, next cycle.
MonReadEOF(t) ==
    /\ pc[t] = "mn_read"
    /\ proc[tpid[t]] = "exited"
    /\ Goto(t, "mn_loop")
    /\ UNCHANGED <<stateVars, ret, cont, nest, msg, localVars, ctlVars,
                   hostVars>>

\* the kinds of lines a worker writes: one with a hashrate ("speed ... H/s"),
\* one with "error" in it, any other
LineKinds == {"speed", "error", "output"}

\* line 264-268 and 286: the worker writes a line, readline returns it and
\* _process_xmrig_output adds it to the log
MonReadLine(t) ==
    /\ pc[t] = "mn_read"
    /\ proc[tpid[t]] = "alive"
    /\ appended < MaxLines
    /\ \E kind \in LineKinds : EnterAddLog(t, <<"line", kind>>, "none", "mn_line")
    /\ UNCHANGED <<stateVars, ret, outside>>

\* _process_xmrig_output line 289-310 after add_log: update_hashrate for a
\* line with a hashrate, set_error for a line with "error"; then the sleep
MonLine(t) ==
    /\ pc[t] = "mn_line"
    /\ IF msg[t][2] = "speed"
       THEN StateUpdateHashrate(t, "1234.5 H/s", "mn_loop")
       ELSE IF msg[t][2] = "error"
       THEN StateSetError(t, "XMrig error", "mn_loop")
       ELSE Goto(t, "mn_loop") /\ UNCHANGED <<stateVars, ret, cont, nest, msg>>
    /\ UNCHANGED outside

\* a step of the monitor that needs nothing from the worker
MonOwnStep(t) ==
    \/ MonLoop(t) \/ MonPoll(t) \/ MonStop(t) \/ MonError(t)
    \/ MonReadEOF(t) \/ MonLine(t)

\* -------------------------------------------------------------- IPCServer
\* _handle_start (server.py 198-234): the handler answers at once; a valid
\* request leaves a thread running controller.start_mining(mode, config).
\* The values of the "mode" field of a start request: a JSON string, a
\* JSON number, or no field.
Absent == <<"absent", "">>
RequestModes == {Str("background"), Str("Money_Hunter"), Str("stopped"),
                 Str("Bogus"), Num("5"), Absent}

\* request.get(key, default)
Get(v, default) == IF v = Absent THEN default ELSE v

\* str.lower(), for the strings of the model
Lower(text) ==
    CASE text = "Money_Hunter" -> "money_hunter"
      [] text = "Bogus" -> "bogus"
      [] OTHER -> text

\* Variant of HandleStart: every member of MiningMode is taken for a mode to
\* start, "stopped" included.
HandleStartAnyMode(t, v) ==
    LET mode_v == Get(v, Str(""))
        mode_str == Lower(mode_v[2])
    IN  IF mode_v[1] # "str"
        THEN /\ resp' = [resp EXCEPT ![t] = "Command failed"]
             /\ Respond(t, [ok |-> FALSE,
                            error |-> "Command failed: AttributeError"])
             /\ Goto(t, "done")
             /\ UNCHANGED <<tmode, tcfg>>
        ELSE IF mode_str \notin MiningMode
        THEN /\ resp' = [resp EXCEPT ![t] = "Invalid mode"]
             /\ Respond(t, [ok |-> FALSE,
                            error |-> "Invalid mode: " \o mode_str])
             /\ Goto(t, "done")
             /\ UNCHANGED <<tmode, tcfg>>
        ELSE IF ~is_valid(stored_config)[1]
        THEN /\ resp' = [resp EXCEPT ![t] = "Configuration error"]
             /\ Respond(t, [ok |-> FALSE,
                            error |-> "Configuration error: "
                                      \o is_valid(stored_config)[2]])
             /\ Goto(t, "done")
             /\ UNCHANGED <<tmode, tcfg>>
        ELSE /\ resp' = [resp EXCEPT ![t] = "Starting"]
             /\ Respond(t, [ok |-> TRUE,
                            message |-> "Starting " \o mode_str
                                        \o " mining..."])
             /\ Goto(t, "cs_begin")
             /\ tmode' = [tmode EXCEPT ![t] = mode_str]
             /\ tcfg' = [tcfg EXCEPT ![t] = stored_config]

\* _handle_start for a request whose "mode" field is v; a mode that is no
\* string has no .lower(): the AttributeError is answered by
\* _process_request (server.py 174-176).  (The 'Invalid mode' error goes on
\* with ". Use 'background' or 'money_hunter'".)
HandleStart(t, v) ==
    LET mode_v == Get(v, Str(""))
        mode_str == Lower(mode_v[2])
    IN  IF mode_v[1] # "str"
        THEN /\ resp' = [resp EXCEPT ![t] = "Command failed"]
             /\ Respond(t, [ok |-> FALSE,
                            error |-> "Command failed: AttributeError"])
             /\ Goto(t, "done")
             /\ UNCHANGED <<tmode, tcfg>>
        ELSE IF mode_str \notin {"background", "money_hunter"}
        THEN /\ resp' = [resp EXCEPT ![t] = "Invalid mode"]
             /\ Respond(t, [ok |-> FALSE,
                            error |-> "Invalid mode: " \o mode_str])
             /\ Goto(t, "done")
             /\ UNCHANGED <<tmode, tcfg>>
        ELSE IF ~is_valid(stored_config)[1]
        THEN /\ resp' = [resp EXCEPT ![t] = "Configuration error"]
             /\ Respond(t, [ok |-> FALSE,
                            error |-> "Configuration error: "
                                      \o is_valid(stored_config)[2]])
             /\ Goto(t, "done")
             /\ UNCHANGED <<tmode, tcfg>>
        ELSE /\ resp' = [resp EXCEPT ![t] = "Starting"]
             /\ Respond(t, [ok |-> TRUE,
                            message |-> "Starting " \o mode_str
                                        \o " mining..."])
             /\ Goto(t, "cs_begin")
             /\ tmode' = [tmode EXCEPT ![t] = mode_str]
             /\ tcfg' = [tcfg EXCEPT ![t] = stored_config]

StartCommand(t) ==
    /\ pc[t] = "idle"
    /\ \A u \in AllThreads : u < t => pc[u] # "idle"
    /\ running
    /\ \E v \in RequestModes :
         /\ request' = [request EXCEPT ![t] = [cmd |-> Str("start"),
                                               mode |-> v]]
         /\ data' = [data EXCEPT ![t] = [json |-> request'[t]]]
         /\ HandleStart(t, v)
    /\ op' = [op EXCEPT ![t] = "cmd_start"]
    /\ UNCHANGED <<stateVars, ret, cont, nest, msg, frame, tpid, ctlVars,
                   hostVars, building, running, socket_file>>

\* _handle_stop (server.py 236-238): the handler calls
\* controller.stop_mining("User requested via IPC")
StopCommand(t) ==
    /\ pc[t] = "idle"
    /\ \A u \in AllThreads : u < t => pc[u] # "idle"
    /\ running
    /\ Goto(t, "im_check")
    /\ op' = [op EXCEPT ![t] = "cmd_stop"]
    /\ frame' = [frame EXCEPT ![t] = "stop_mining"]
    /\ conn' = [conn EXCEPT ![t] = "open"]
    /\ request' = [request EXCEPT ![t] = [cmd |-> Str("stop")]]
    /\ data' = [data EXCEPT ![t] = [json |-> request'[t]]]
    /\ UNCHANGED <<stateVars, ret, cont, nest, msg, tmode, tpid, tcfg, resp,
                   sent, reply, building, running, socket_file, ctlVars, hostVars>>

\* ------------------------------------------------ the other commands
\* JSON values of a request besides strings and numbers
Null == <<"null", "null">>
EmptyList == <<"list", "[]">>

\* what a client sends: nothing before it hangs up, bytes that are no
\* UTF-8, text that is no JSON, or a JSON document.  (A document that is a
\* mapping is a record of its keys, a key with the value Absent being a key
\* the mapping has not; a document that is no mapping is a record with the
\* one field nondict.)
Payloads ==
    {[bytes |-> ""], [bytes |-> "bad utf-8"], [bytes |-> "not json"],
     [json |-> [nondict |-> "[1, 2]"]],
     [json |-> [x |-> Num("1")]],
     [json |-> [cmd |-> Str("ping"), mode |-> Str("background")]]}
    \cup {[json |-> [cmd |-> c]] :
            c \in {Str("bogus"), Null, EmptyList, Str("ping"),
                   Str("config_get"), Str("system_info")}}
    \cup {[json |-> [cmd |-> Str("config_set"), wallet_address |-> w,
                     pool_url |-> u, worker_name |-> n]] :
            w \in {Absent, Str("4wallet")},
            u \in {Absent, Str("pool.supportxmr.com"), Num("5")},
            n \in {Absent, Str("")}}

\* json.loads(data.decode('utf-8')), server.py 140: the document, or the
\* exception raised
Loads(d) ==
    IF "json" \in DOMAIN d THEN [value |-> d.json]
    ELSE IF d.bytes = "bad utf-8" THEN [raised |-> "UnicodeDecodeError"]
    ELSE [raised |-> "JSONDecodeError"]

\* isinstance(request, dict)
IsDict(r) == "nondict" \notin DOMAIN r

\* k in request
Has(r, k) == k \in DOMAIN r /\ r[k] # Absent

\* self.handlers (server.py 35-43)
Handlers == {Str("status"), Str("start"), Str("stop"), Str("config_get"),
             Str("config_set"), Str("system_info"), Str("ping")}

\* `cmd not in self.handlers` hashes cmd: a list or a mapping has no hash
Hashable(v) == v[1] \notin {"list", "dict"}

\* f"{cmd}"
Format(v) == IF v = Null THEN "None" ELSE v[2]

\* Variant of HandlePing: no version in the response.
HandlePingNoVersion(r) == [ok |-> TRUE, message |-> "pong"]

\* _handle_ping
HandlePing(r) == [ok |-> TRUE, message |-> "pong", daemon_version |-> "1.0.0"]

\* _handle_system_info (server.py 292-301): three static methods of
\* SystemInfo that read psutil and catch what it raises (state.py 191-243)
HandleSystemInfo(r) ==
    [ok |-> TRUE, cpu_info |-> "cpu", memory_info |-> "memory",
     thermal_info |-> "thermal"]

\* _handle_config_get
HandleConfigGet(stored) == [ok |-> TRUE, config |-> stored]

\* _handle_config_set, server.py 263-275: the stored configuration with the
\* fields of the request written over it
Merged(r, stored) ==
    [k \in DOMAIN stored |-> IF Has(r, k) THEN r[k] ELSE stored[k]]

\* Variant of SavedConfig: the merged configuration is stored before it is
\* validated.
SavedConfigUnchecked(r, stored, save_ok) ==
    IF save_ok THEN Merged(r, stored) ELSE stored

\* the configuration in config.json after _handle_config_set: the merged one
\* when it is valid and save_config could write it (server.py 278-283,
\* config.py 71-81), else the one before
SavedConfig(r, stored, save_ok) ==
    IF is_valid(Merged(r, stored))[1] /\ save_ok
    THEN Merged(r, stored)
    ELSE stored

\* _handle_config_set: the response
HandleConfigSet(r, stored, save_ok) ==
    LET v == is_valid(Merged(r, stored))
    IN  IF v[2] = "raised"
        THEN [ok |-> FALSE,
              error |-> "Configuration update failed: TypeError"]
        ELSE IF ~v[1]
        THEN [ok |-> FALSE, error |-> "Invalid configuration: " \o v[2]]
        ELSE IF save_ok
        THEN [ok |-> TRUE, message |-> "Configuration updated"]
        ELSE [ok |-> FALSE, error |-> "Failed to save configuration"]

\* the end of `with client_socket:` with nothing written (server.py 137, and
\* an exception that leaves _handle_client's inner block, 152-153)
Hangup(t) ==
    /\ conn' = [conn EXCEPT ![t] = "closed"]
    /\ UNCHANGED <<sent, reply>>

\* _process_request for a request r that is no start and no stop (those are
\* StartCommand and StopCommand), and the write of its response
ProcessRequest(t, r, save_ok) ==
    IF ~IsDict(r) \/ ~Has(r, "cmd")
    THEN /\ Respond(t, [ok |-> FALSE, error |-> "Missing 'cmd' field"])
         /\ UNCHANGED stored_config
    ELSE IF ~Hashable(r.cmd)
    THEN \* TypeError at line 169, outside the try of lines 172-176
         Hangup(t) /\ UNCHANGED stored_config
    ELSE IF r.cmd \notin Handlers
    THEN /\ Respond(t, [ok |-> FALSE,
                        error |-> "Unknown command: " \o Format(r.cmd)])
         /\ UNCHANGED stored_config
    ELSE IF r.cmd = Str("ping")
    THEN Respond(t, HandlePing(r)) /\ UNCHANGED stored_config
    ELSE IF r.cmd = Str("config_get")
    THEN Respond(t, HandleConfigGet(stored_config)) /\ UNCHANGED stored_config
    ELSE IF r.cmd = Str("system_info")
    THEN Respond(t, HandleSystemInfo(r)) /\ UNCHANGED stored_config
    ELSE /\ r.cmd = Str("config_set")
         /\ Respond(t, HandleConfigSet(r, stored_config, save_ok))
         /\ stored_config' = SavedConfig(r, stored_config, save_ok)

\* _handle_client for the bytes d
HandleClient(t, d, save_ok) ==
    IF d = [bytes |-> ""]
    THEN Hangup(t) /\ UNCHANGED <<request, stored_config>>
    ELSE IF "raised" \in DOMAIN Loads(d)
    THEN /\ IF Loads(d).raised = "JSONDecodeError"
            THEN Respond(t, [ok |-> FALSE, error |-> "Invalid JSON"])
            ELSE Hangup(t)
         /\ UNCHANGED <<request, stored_config>>
    ELSE /\ request' = [request EXCEPT ![t] = Loads(d).value]
         /\ ProcessRequest(t, Loads(d).value, save_ok)

\* Variant of ClientCommand: the handler also calls MinerState.clear_error.
ClientCommandClearsError(t) ==
    /\ pc[t] = "idle"
    /\ \A u \in AllThreads : u < t => pc[u] # "idle"
    /\ running
    /\ \E d \in Payloads, save_ok \in BOOLEAN :
         /\ data' = [data EXCEPT ![t] = d]
         /\ HandleClient(t, d, save_ok)
    /\ Goto(t, "done")
    /\ op' = [op EXCEPT ![t] = "client"]
    /\ last_error' = "None"
    /\ UNCHANGED <<lock, mode, xmrig_pid, threads_active, total_threads,
                   log_buffer, start_time, hashrate, appended>>
    /\ UNCHANGED <<ret, cont, nest, msg, tmode, frame, tpid, tcfg,
                   resp, building, running, socket_file, ctlVars, proc, cfg_file>>

\* Variant of ClientCommand: the accept loop handles the connection itself
\* and accepts the next one when no other is open.
ClientCommandInline(t) ==
    /\ pc[t] = "idle"
    /\ \A u \in AllThreads : u < t => pc[u] # "idle"
    /\ running
    /\ \A u \in AllThreads : conn[u] # "open"
    /\ \E d \in Payloads, save_ok \in BOOLEAN :
         /\ data' = [data EXCEPT ![t] = d]
         /\ HandleClient(t, d, save_ok)
    /\ Goto(t, "done")
    /\ op' = [op EXCEPT ![t] = "client"]
    /\ UNCHANGED <<stateVars, ret, cont, nest, msg, tmode, frame, tpid, tcfg,
                   resp, building, running, socket_file, ctlVars, proc, cfg_file>>

\* _accept_connections (server.py 103-114) accepts a connection and starts a
\* thread for it; _handle_client (line 130-135) then receives.
\* A client connects and sends one of Payloads; save_config succeeds or not
ClientCommand(t) ==
    /\ pc[t] = "idle"
    /\ \A u \in AllThreads : u < t => pc[u] # "idle"
    /\ running
    /\ \E d \in Payloads, save_ok \in BOOLEAN :
         /\ data' = [data EXCEPT ![t] = d]
         /\ HandleClient(t, d, save_ok)
    /\ Goto(t, "done")
    /\ op' = [op EXCEPT ![t] = "client"]
    /\ UNCHANGED <<stateVars, ret, cont, nest, msg, tmode, frame, tpid, tcfg,
                   resp, building, running, socket_file, ctlVars, proc, cfg_file>>

\* a client connects and sends nothing: its thread waits in recv (line 135)
SilentConnect(t) ==
    /\ pc[t] = "idle"
    /\ \A u \in AllThreads : u < t => pc[u] # "idle"
    /\ running
    /\ Goto(t, "recv")
    /\ op' = [op EXCEPT ![t] = "client"]
    /\ conn' = [conn EXCEPT ![t] = "open"]
    /\ UNCHANGED <<stateVars, ret, cont, nest, msg, tmode, frame, tpid, tcfg,
                   resp, data, request, sent, reply, building, running, socket_file,
                   ctlVars, hostVars>>

\* the 30 s of line 132 are over: socket.timeout leaves the `with` block,
\* which closes the connection, and the thread ends (line 150-151)
RecvTimeout(t) ==
    /\ pc[t] = "recv"
    /\ Hangup(t)
    /\ Goto(t, "done")
    /\ UNCHANGED <<stateVars, ret, cont, nest, msg, op, tmode, frame, tpid,
                   tcfg, resp, data, request, building, running, socket_file, ctlVars,
                   hostVars>>

\* ------------------------------------------------------------- status
\* _handle_status (server.py 178-188) reads three fields of MinerState one
\* after the other without the lock; other threads run between the reads.
\* (The writes of start_mining and stop_mining are one step each here; a
\* status that reads between two of them sees further mixes.  No read
\* raises, so the except branch of lines 189-196 is never taken.)

\* a client sends {"cmd": "status"}; line 184: the first read of _mode
StatusCommand(t) ==
    /\ pc[t] = "idle"
    /\ \A u \in AllThreads : u < t => pc[u] # "idle"
    /\ running
    /\ Goto(t, "st_mode")
    /\ op' = [op EXCEPT ![t] = "cmd_status"]
    /\ conn' = [conn EXCEPT ![t] = "open"]
    /\ request' = [request EXCEPT ![t] = [cmd |-> Str("status")]]
    /\ data' = [data EXCEPT ![t] = [json |-> request'[t]]]
    /\ building' = [building EXCEPT ![t] =
                      [ok |-> TRUE, mining_active |-> mode # STOPPED]]
    /\ UNCHANGED <<stateVars, ret, cont, nest, msg, tmode, frame, tpid, tcfg,
                   resp, sent, reply, running, socket_file, ctlVars, hostVars>>

\* Variant of StatusMode: the mode is read through the property
\* MinerState.mode, which takes the lock.
StatusModeLocked(t) ==
    /\ pc[t] = "st_mode"
    /\ lock = 0
    /\ Goto(t, "st_threads")
    /\ building' = [building EXCEPT ![t] =
                      [ok |-> TRUE,
                       mining_active |-> building[t].mining_active,
                       current_mode |-> mode]]
    /\ UNCHANGED <<stateVars, ret, cont, nest, msg, op, tmode, frame, tpid,
                   tcfg, resp, conn, data, request, sent, reply, running, socket_file,
                   ctlVars, hostVars>>

\* line 185: the second read of _mode
StatusMode(t) ==
    /\ pc[t] = "st_mode"
    /\ Goto(t, "st_threads")
    /\ building' = [building EXCEPT ![t] =
                      [ok |-> TRUE,
                       mining_active |-> building[t].mining_active,
                       current_mode |-> mode]]
    /\ UNCHANGED <<stateVars, ret, cont, nest, msg, op, tmode, frame, tpid,
                   tcfg, resp, conn, data, request, sent, reply, running, socket_file,
                   ctlVars, hostVars>>

\* lines 186-187: the reads of _threads_active and _total_threads; the
\* response is written
StatusThreads(t) ==
    /\ pc[t] = "st_threads"
    /\ Goto(t, "done")
    /\ Respond(t, [ok |-> TRUE,
                   mining_active |-> building[t].mining_active,
                   current_mode |-> building[t].current_mode,
                   mining_threads |-> threads_active,
                   total_threads |-> total_threads])
    /\ building' = [building EXCEPT ![t] = <<>>]
    /\ UNCHANGED <<stateVars, ret, cont, nest, msg, op, tmode, frame, tpid,
                   tcfg, resp, data, request, running, socket_file, ctlVars, hostVars>>

StatusStep(t) == StatusMode(t) \/ StatusThreads(t)

\* ----------------------------------------------------------- shutdown
\* DaemonServer.shutdown (server.py 365-379) calls controller.shutdown and
\* then ipc_server.stop inside one try.  controller.shutdown (controller.py
\* 324-334) calls is_mining, stop_mining("Daemon shutdown") when it returns
\* True, and then sweeps; an exception that leaves it (Finish with "raised")
\* is logged by DaemonServer.shutdown, which then returns.

\* the daemon is told to shut down: controller.shutdown calls is_mining
ShutdownCommand(t) ==
    /\ pc[t] = "idle"
    /\ \A u \in AllThreads : u < t => pc[u] # "idle"
    /\ running
    /\ \A u \in AllThreads : op[u] # "shutdown"
    /\ Goto(t, "im_check")
    /\ op' = [op EXCEPT ![t] = "shutdown"]
    /\ frame' = [frame EXCEPT ![t] = "shutdown"]
    /\ UNCHANGED <<stateVars, ret, cont, nest, msg, tmode, tpid, tcfg, resp,
                   ipcVars, ctlVars, hostVars>>

\* controller.shutdown line 332, _cleanup_orphaned_processes
ShutdownSweep(t) ==
    /\ pc[t] = "sd_sweep"
    /\ \E ended \in SUBSET {p \in AllThreads : proc[p] = "alive"} :
         proc' = [p \in AllThreads |->
                    IF p \in ended THEN "exited" ELSE proc[p]]
    /\ Goto(t, "sd_server")
    /\ UNCHANGED <<stateVars, ret, cont, nest, msg, localVars, ctlVars,
                   cfg_file, stored_config>>

\* ipc_server.stop, server.py 78-85: running is cleared and the listening
\* socket closed; the accept loop takes no further connection
ShutdownServer(t) ==
    /\ pc[t] = "sd_server"
    /\ running' = FALSE
    /\ Goto(t, "sd_unlink")
    /\ UNCHANGED <<stateVars, ret, cont, nest, msg, op, tmode, frame, tpid,
                   tcfg, resp, conn, data, request, sent, reply, building,
                   socket_file, ctlVars, hostVars>>

\* ipc_server.stop, server.py 88-92: the file of the socket is removed
ServerUnlink(t) ==
    /\ pc[t] = "sd_unlink"
    /\ socket_file' = FALSE
    /\ Goto(t, "sd_join")
    /\ UNCHANGED <<stateVars, ret, cont, nest, msg, op, tmode, frame, tpid,
                   tcfg, resp, conn, data, request, sent, reply, building,
                   running, ctlVars, hostVars>>

\* Variant of ServerJoin: each client thread is joined with no timeout.
ServerJoinUnbounded(t) ==
    /\ pc[t] = "sd_join"
    /\ \A u \in AllThreads : op[u] = "client" => pc[u] = "done"
    /\ Goto(t, "done")
    /\ UNCHANGED <<stateVars, ret, cont, nest, msg, localVars, ctlVars,
                   hostVars>>

\* ipc_server.stop, server.py 95-99: each client thread that is alive is
\* joined for at most 1 s, ended or not; stop returns
ServerJoin(t) ==
    /\ pc[t] = "sd_join"
    /\ Goto(t, "done")
    /\ UNCHANGED <<stateVars, ret, cont, nest, msg, localVars, ctlVars,
                   hostVars>>

\* the three steps of IPCServer.stop
ServerStop(t) == ShutdownServer(t) \/ ServerUnlink(t) \/ ServerJoin(t)

\* ------------------------------------------- direct callers of MinerState
\* Threads that call the methods of one MinerState, in any order.

ApiOps == {"start_mining", "stop_mining", "set_error", "clear_error",
           "add_log", "update_hashrate", "is_mining", "get_status_dict"}

\* a thread begins a call o of MinerState (start_mining with mode m); it has
\* at most `lines` direct add_log calls to make
ApiCall(t, lines) ==
    /\ pc[t] = "idle"
    /\ \E o \in ApiOps, m \in MiningMode :
         /\ o = "add_log" => appended < lines
         /\ o # "start_mining" => m = STOPPED
         /\ pc' = [pc EXCEPT ![t] = "call"]
         /\ op' = [op EXCEPT ![t] = o]
         /\ tmode' = [tmode EXCEPT ![t] = m]
    /\ UNCHANGED <<stateVars, ret, cont, nest, msg, frame, tpid, tcfg, resp, ipcVars,
                   ctlVars, hostVars>>

ApiStartMining(t) ==
    /\ pc[t] = "call" /\ op[t] = "start_mining"
    /\ \E pid \in 1..MaxPid, thr \in {1, total_threads} :
         StateStartMining(t, tmode[t], pid, thr, "returned")
    /\ UNCHANGED outside

ApiStopMining(t) ==
    /\ pc[t] = "call" /\ op[t] = "stop_mining"
    /\ StateStopMining(t, "User requested", "returned")
    /\ UNCHANGED outside

ApiSetError(t) ==
    /\ pc[t] = "call" /\ op[t] = "set_error"
    /\ StateSetError(t, "error", "returned")
    /\ UNCHANGED outside

ApiClearError(t) ==
    /\ pc[t] = "call" /\ op[t] = "clear_error"
    /\ StateClearError(t, "returned")
    /\ UNCHANGED outside

ApiAddLog(t) ==
    /\ pc[t] = "call" /\ op[t] = "add_log"
    /\ EnterAddLog(t, <<"line", "output">>, "none", "returned")
    /\ UNCHANGED <<stateVars, ret, outside>>

ApiUpdateHashrate(t) ==
    /\ pc[t] = "call" /\ op[t] = "update_hashrate"
    /\ StateUpdateHashrate(t, "1234.5 H/s", "returned")
    /\ UNCHANGED outside

ApiIsMining(t) ==
    /\ pc[t] = "call" /\ op[t] = "is_mining"
    /\ EnterIsMining(t, "none", "returned")
    /\ UNCHANGED <<stateVars, ret, msg, outside>>

ApiGetStatusDict(t) ==
    /\ pc[t] = "call" /\ op[t] = "get_status_dict"
    /\ StateGetStatusDict(t, "returned")
    /\ UNCHANGED outside

\* the caller has the result of its call and is free to make the next one
ApiDone(t) ==
    /\ pc[t] = "returned"
    /\ pc' = [pc EXCEPT ![t] = "idle"]
    /\ op' = [op EXCEPT ![t] = "none"]
    /\ ret' = [ret EXCEPT ![t] = "none"]
    /\ tmode' = [tmode EXCEPT ![t] = STOPPED]
    /\ cont' = [cont EXCEPT ![t] = "idle"]
    /\ nest' = [nest EXCEPT ![t] = "none"]
    /\ msg' = [msg EXCEPT ![t] = <<"none", "none">>]
    /\ UNCHANGED <<stateVars, frame, tpid, tcfg, resp, ipcVars, ctlVars, hostVars>>

ApiStep(t) ==
    \/ ApiStartMining(t)
    \/ ApiStopMining(t)
    \/ ApiSetError(t)
    \/ ApiClearError(t)
    \/ ApiAddLog(t)
    \/ ApiUpdateHashrate(t)
    \/ ApiIsMining(t)
    \/ ApiGetStatusDict(t)
    \/ PropIsMining(t)
    \/ AddLog(t)
    \/ ApiDone(t)

InitState == StateInit /\ ThreadInit /\ CtlInit /\ stored_config = DefaultConfig

\* any number of threads calling MinerState
NextState == \E t \in Callers : ApiCall(t, MaxLines) \/ ApiStep(t)

SpecState == InitState /\ [][NextState]_vars

\* one thread calling MinerState, with enough add_log calls to fill the buffer
NextLog == ApiCall(1, MaxAppends) \/ ApiStep(1)

SpecLog == InitState /\ [][NextLog]_vars

\* The daemon after DaemonServer.start: no worker, the stored configuration
\* either the defaults or a configured one
Init ==
    /\ StateInit /\ ThreadInit /\ CtlInit
    /\ stored_config \in {DefaultConfig, Configured}

\* Clients send start and stop commands at any time; workers end at any time.
\* (MinerState.add_log is no step of the daemon: the only direct call is in
\* the monitor thread, controller.py 286, and start_mining never reaches the
\* line that starts it; a thread that reaches add_log from inside MinerState
\* holds the lock it waits for.)
Next ==
    \/ \E t \in Threads : StartCommand(t) \/ StopCommand(t) \/ CtlStep(t)
    \/ \E t \in Threads : StatusCommand(t) \/ StatusStep(t)
    \/ \E p \in Threads : WorkerExit(p)

Spec == Init /\ [][Next]_vars

\* ------------------------------------------- one command at a time
\* the program points at which a thread acquires MinerState._lock
LockPoints == {"call", "add_log", "im_stop", "qs_stop", "qs_err", "cs_invalid",
               "cs_state", "cs_except", "sp_stop", "sp_except"}

\* thread t has a step to take: it has begun, has not finished and waits
\* neither for the lock while it is held nor for a client that sends nothing
Running(t) ==
    /\ pc[t] \notin {"idle", "done", "recv"}
    /\ ~(pc[t] \in LockPoints /\ lock # 0)

\* no thread has a step to take
AtRest == \A t \in AllThreads : ~Running(t)

\* The controller steps a thread takes when no other thread runs.  The steps
\* of CtlStep left out are never enabled then (SeqStepsAreAll): the two after
\* a read of self.xmrig_process that another thread overwrote, and the calls
\* of MinerState.stop_mining and what follows them, which need a handle and
\* the lock free at once.
SeqStep(t) ==
    \/ IsMiningCheck(t) \/ IsMiningPoll(t) \/ IsMiningClear(t)
    \/ CtlStartMining(t)
    \/ QuickStopFlag(t) \/ QuickStopPid(t) \/ QuickStopKill(t)
    \/ QuickStopClear(t)
    \/ CtlStartConfig(t) \/ CtlStartPopen(t)
    \/ CtlStartPid(t) \/ CtlStartState(t) \/ CtlStartExcept(t)
    \/ CtlStopFlag(t) \/ CtlStopPid(t) \/ CtlStopTerm(t) \/ CtlStopWait(t)
    \/ CtlStopKill(t) \/ CtlStopWait2(t) \/ CtlStopClear(t)
    \/ CtlStopSweep(t)

\* no step of CtlStep that SeqStep leaves out is enabled
SeqStepsAreAll ==
    \A t \in Commands :
        /\ ~ENABLED IsMiningStop(t) /\ ~ENABLED IsMiningFalse(t)
        /\ ~ENABLED QuickStopState(t) /\ ~ENABLED QuickStopError(t)
        /\ ~ENABLED CtlStopState(t) /\ ~ENABLED CtlStopExists(t)
        /\ ~ENABLED CtlStopUnlink(t) /\ ~ENABLED CtlStopExcept(t)

\* A client that sends its next command when the daemon has come to rest.
NextSeq ==
    \/ \E t \in Commands :
         AtRest /\ (StartCommand(t) \/ StopCommand(t) \/ ClientCommand(t))
    \/ \E t \in Commands : AtRest /\ ShutdownCommand(t)
    \/ \E t \in Commands : AtRest /\ SilentConnect(t)
    \/ \E t \in Commands : (AtRest /\ StatusCommand(t)) \/ StatusStep(t)
    \/ \E t \in Commands : RecvTimeout(t)
    \/ \E t \in Commands : ShutdownSweep(t) \/ ServerStop(t)
    \/ \E t \in Commands : SeqStep(t)
    \/ \E p \in Commands : WorkerExit(p)

SpecSeq == Init /\ [][NextSeq]_vars

\* ------------------------------------ direct callers of XMrigController
\* a caller begins controller.start_mining(m, c), controller.stop_mining(),
\* controller.is_mining(), or MinerState.start_mining(STOPPED, pid, threads)
CtlCall(t) ==
    /\ pc[t] = "idle"
    /\ \A u \in AllThreads : u < t => pc[u] # "idle"
    /\ \/ \E m \in MiningMode, c \in {Configured, NoPort} :
            /\ Goto(t, "cs_begin")
            /\ op' = [op EXCEPT ![t] = "ctl_start"]
            /\ tmode' = [tmode EXCEPT ![t] = m]
            /\ tcfg' = [tcfg EXCEPT ![t] = c]
            /\ UNCHANGED frame
       \/ /\ Goto(t, "im_check")
          /\ op' = [op EXCEPT ![t] = "ctl_stop"]
          /\ frame' = [frame EXCEPT ![t] = "stop_mining"]
          /\ UNCHANGED <<tmode, tcfg>>
       \/ /\ Goto(t, "im_check")
          /\ op' = [op EXCEPT ![t] = "ctl_is_mining"]
          /\ frame' = [frame EXCEPT ![t] = "caller"]
          /\ UNCHANGED <<tmode, tcfg>>
       \/ /\ Goto(t, "call")
          /\ op' = [op EXCEPT ![t] = "start_mining"]
          /\ UNCHANGED <<tmode, tcfg, frame>>
    /\ UNCHANGED <<stateVars, ret, cont, nest, msg, tpid, resp, ipcVars, ctlVars,
                   hostVars>>

\* any number of threads calling the controller
NextCtl ==
    \/ \E t \in Threads :
         \/ CtlCall(t) \/ CtlStep(t) \/ CtlStartInvalid(t)
         \/ ApiStartMining(t) \/ ApiDone(t)
    \/ \E p \in Threads : WorkerExit(p)

SpecCtl == InitState /\ [][NextCtl]_vars

\* ------------------------------------------- construction and start
\* DaemonServer.__init__ (server.py 314-319) builds MinerState and then
\* XMrigController, whose __init__ (controller.py 24-33) probes xmrig and
\* calls state.set_error when the probe fails; DaemonServer.start (server.py
\* 330-349) then starts the command server.

\* MinerState is built, the controller is not, no server runs
InitBoot ==
    /\ StateInit /\ ThreadsIdle /\ CtlInit
    /\ running = FALSE /\ socket_file = FALSE
    /\ stored_config \in {DefaultConfig, Configured}

\* _check_xmrig_available (controller.py 35-53): True when `xmrig --version`
\* exits with 0; False when it exits with another code, is not found or
\* does not end in 5 s
BootProbe(t) ==
    /\ pc[t] = "idle"
    /\ ~running
    /\ \A u \in AllThreads : op[u] = "none"
    /\ op' = [op EXCEPT ![t] = "boot"]
    /\ \E found \in BOOLEAN :
         Return(t, IF found THEN "True" ELSE "False",
                IF found THEN "bt_start" ELSE "bt_error")
    /\ UNCHANGED <<stateVars, cont, nest, msg, tmode, frame, tpid, tcfg, resp,
                   ipcVars, ctlVars, hostVars>>

\* controller.py 32-33
BootSetError(t) ==
    /\ pc[t] = "bt_error"
    /\ StateSetError(t, "XMrig not found in PATH", "bt_start")
    /\ UNCHANGED outside

\* DaemonServer.start: no handle, so is_mining() is False; ipc_server.start
\* (server.py 45-68) binds the socket and starts the accept loop
BootStart(t) ==
    /\ pc[t] = "bt_start"
    /\ running' = TRUE
    /\ socket_file' = TRUE
    /\ Goto(t, "done")
    /\ UNCHANGED <<stateVars, ret, cont, nest, msg, op, tmode, frame, tpid,
                   tcfg, resp, conn, data, request, sent, reply, building,
                   ctlVars, hostVars>>

\* The daemon is constructed and started; clients then send commands that
\* need no worker.  (add_log is no step here: the thread that reaches it
\* holds the lock it waits for.)
NextBoot ==
    \E t \in Commands :
        BootProbe(t) \/ BootSetError(t) \/ BootStart(t) \/ ClientCommand(t)

SpecBoot == InitBoot /\ [][NextBoot]_vars

\* ------------------------------------------- the monitor and its worker
\* In the daemon start_mining starts the monitor thread at line 100-104,
\* after state.start_mining (line 96) has returned.  Here a caller runs the
\* thread's target itself, next to callers of controller.start_mining and
\* controller.stop_mining.
MonHarness(t) ==
    /\ pc[t] = "idle"
    /\ \A u \in AllThreads : u < t => pc[u] # "idle"
    /\ \/ /\ Goto(t, "cs_begin")
          /\ op' = [op EXCEPT ![t] = "ctl_start"]
          /\ \E m \in ActiveModes : tmode' = [tmode EXCEPT ![t] = m]
          /\ tcfg' = [tcfg EXCEPT ![t] = Configured]
          /\ UNCHANGED frame
       \/ /\ Goto(t, "im_check")
          /\ op' = [op EXCEPT ![t] = "ctl_stop"]
          /\ frame' = [frame EXCEPT ![t] = "stop_mining"]
          /\ UNCHANGED <<tmode, tcfg>>
    /\ UNCHANGED <<stateVars, ret, cont, nest, msg, tpid, resp, ipcVars, ctlVars,
                   hostVars>>

NextMon ==
    \/ \E t \in Threads : MonHarness(t) \/ MonCall(t) \/ CtlStep(t)
    \/ \E t \in Threads : MonOwnStep(t) \/ MonReadLine(t) \/ AddLog(t)
    \/ \E p \in Threads : WorkerExit(p)

SpecMon == InitState /\ [][NextMon]_vars

\* ---------------------------------------------- the thread shares alone
\* A MinerState constructed on a machine of 1..MaxCores logical cores
\* (psutil.cpu_count, state.py 30), and callers of
\* calculate_threads_for_mode; ret[t] is the pair returned.
InitCalc ==
    /\ lock = 0 /\ mode = STOPPED /\ xmrig_pid = 0 /\ threads_active = 0
    /\ total_threads \in 1..MaxCores
    /\ log_buffer = <<>> /\ last_error = "None" /\ start_time = "None"
    /\ hashrate = "None" /\ appended = 0
    /\ ThreadInit /\ CtlInit /\ stored_config = DefaultConfig

CalcCall(t) ==
    /\ pc[t] = "idle"
    /\ \A u \in AllThreads : u < t => pc[u] # "idle"
    /\ \E m \in MiningMode :
        /\ tmode' = [tmode EXCEPT ![t] = m]
        /\ ret' = [ret EXCEPT ![t] = calculate_threads_for_mode(m)]
    /\ op' = [op EXCEPT ![t] = "calc"]
    /\ Goto(t, "done")
    /\ UNCHANGED <<stateVars, cont, nest, msg, frame, tpid, tcfg, resp, ipcVars,
                   ctlVars, hostVars>>

NextCalc == \E t \in Callers : CalcCall(t)

SpecCalc == InitCalc /\ [][NextCalc]_vars

\* ------------------------------------------ shutdown among the commands
\* The daemon is told to shut down (DaemonServer.shutdown, server.py
\* 365-379, on the main thread) while the threads of start commands run.
NextDown ==
    \/ \E t \in Threads : StartCommand(t) \/ ShutdownCommand(t) \/ CtlStep(t)
    \/ \E t \in Threads : ShutdownSweep(t) \/ ServerStop(t)
    \/ \E p \in Threads : WorkerExit(p)

SpecDown == Init /\ [][NextDown]_vars

\* ================================================================= claims

\* C1 (SpecState): in every MinerState that calls of start_mining and
\* stop_mining from any threads reach, the worker pid is present if and only
\* if the mode is not STOPPED.
C1_PidIffActive == (xmrig_pid # 0) <=> (mode # STOPPED)

\* a start_mining with an active mode has written the fields
C1_Witness ==
    \E t \in Callers :
        /\ op[t] = "start_mining" /\ tmode[t] \in ActiveModes
        /\ pc[t] = "add_log"
        /\ mode = tmode[t] /\ xmrig_pid # 0

\* C2 (SpecState): every MinerState operation returns to its caller with the
\* lock released; no thread is ever inside add_log waiting for the lock that
\* it holds itself, which is a wait without end.
C2_LockReleased ==
    \A t \in Callers : ~(pc[t] = "add_log" /\ lock = t)

\* C3 (Spec): at most one worker launched by the controller is alive at any
\* time, for every interleaving of start commands, stop commands and worker
\* exits.
C3_OneWorker ==
    Cardinality({p \in AllThreads : proc[p] = "alive"}) <= 1

\* C4 (Spec): the mode of MinerState never changes in one step from one
\* active mode to the other active mode.
C4_NoDirectSwitch ==
    [][~(mode \in ActiveModes /\ mode' \in ActiveModes /\ mode' # mode)]_vars

\* a start command for the other active mode is at the stop step of
\* _quick_stop_mining while the state is active
C4_Witness ==
    \E t \in Threads :
        /\ op[t] = "cmd_start" /\ pc[t] = "qs_stop"
        /\ mode \in ActiveModes /\ tmode[t] \in ActiveModes
        /\ tmode[t] # mode

\* C5 (SpecState): MinerState.stop_mining called while the mode is STOPPED
\* returns False and changes no field of the state, the log buffer included.
C5_StopIdempotent ==
    [][\A t \in Callers :
         (/\ pc[t] = "call" /\ op[t] = "stop_mining"
          /\ mode = STOPPED
          /\ pc'[t] # pc[t])
         => (/\ pc'[t] = "returned"
             /\ ret'[t] = "False"
             /\ UNCHANGED <<fields, lock, appended>>)]_vars

\* stop_mining has returned False on a stopped state whose log is not empty
C5_Witness ==
    \E t \in Callers :
        /\ op[t] = "stop_mining" /\ pc[t] = "returned" /\ ret[t] = "False"
        /\ mode = STOPPED /\ Len(log_buffer) > 0

\* C6 (SpecCtl): a start with mode STOPPED fails and mutates nothing.
\* MinerState.start_mining(STOPPED, pid, threads) returns False and leaves
\* every field and the lock alone; XMrigController.start_mining(STOPPED,
\* config) returns False and leaves MinerState, the handle, the workers and
\* the worker's config file alone.
C6_StartStoppedFails ==
    [][\A t \in Threads :
         /\ (/\ pc[t] = "call" /\ op[t] = "start_mining"
             /\ tmode[t] = STOPPED
             /\ pc'[t] # pc[t])
            => (/\ pc'[t] = "returned"
                /\ ret'[t] = "False"
                /\ UNCHANGED <<stateVars, ctlVars, hostVars>>)
         /\ (/\ pc[t] = "cs_begin" /\ op[t] = "ctl_start"
             /\ tmode[t] = STOPPED
             /\ pc'[t] # pc[t])
            => (/\ pc'[t] = "done"
                /\ ret'[t] = "False"
                /\ UNCHANGED <<stateVars, ctlVars, hostVars>>)]_vars

\* a controller start has returned False while a worker runs and the state
\* is active (False is returned by the STOPPED check only: the other
\* `return False`, line 72 and 112, follow a set_error that does not return)
C6_Witness ==
    \E t \in Threads :
        /\ op[t] = "ctl_start" /\ pc[t] = "done" /\ ret[t] = "False"
        /\ xmrig_process # 0 /\ proc[xmrig_process] = "alive"
        /\ mode \in ActiveModes

\* C7 (SpecLog): the log buffer never holds more than LogCapacity entries,
\* and it holds the entries appended last, oldest first; after
\* LogCapacity + 1 appends the first entry is gone and the last is there.
C7_LogBounded ==
    /\ Len(log_buffer) <= LogCapacity
    /\ Len(log_buffer) = (IF appended <= LogCapacity THEN appended
                          ELSE LogCapacity)
    /\ \A i \in 1..Len(log_buffer) :
         log_buffer[i].n = appended - Len(log_buffer) + i

\* LogCapacity + 1 entries were appended
C7_Witness ==
    /\ appended = LogCapacity + 1
    /\ Len(log_buffer) = LogCapacity
    /\ log_buffer[1].n = 2
    /\ log_buffer[LogCapacity].n = LogCapacity + 1

\* C8 (SpecSeq): an is_mining call that finds the worker of its handle
\* exited clears the handle, leaves the state STOPPED and returns False: the
\* daemon never comes to rest with such a call still at its
\* state.stop_mining (line 224), short of its return.
C8_IsMiningReconciles ==
    \A t \in Commands : pc[t] = "im_stop" => ~AtRest

\* C9 (SpecSeq): at the moment a stop command answers 'Mining stopped' the
\* mode is STOPPED and the controller tracks no live worker.
C9_StopAnswerMeansStopped ==
    [][\A t \in Commands :
         (/\ op[t] = "cmd_stop"
          /\ resp[t] = "none" /\ resp'[t] = "Mining stopped")
         => (/\ mode' = STOPPED
             /\ (xmrig_process' = 0 \/ proc'[xmrig_process'] # "alive"))]_vars

\* C10 (SpecSeq): when the daemon has come to rest after a start command
\* that was answered 'Starting', whose worker was launched and after which
\* no command was sent, MinerState has the requested mode and a thread
\* count above zero.
C10_StartTakesEffect ==
    \A t \in Commands :
        (/\ AtRest
         /\ op[t] = "cmd_start" /\ resp[t] = "Starting"
         /\ proc[t] # "none"
         /\ \A u \in Commands : u > t => pc[u] = "idle")
        => (mode = tmode[t] /\ threads_active > 0)

\* C11 (SpecSeq): when the asynchronous start of an acknowledged start
\* command has failed (start_mining is in its failure handling, or has
\* returned False or raised) and the daemon has come to rest, MinerState
\* records the failure: last_error is set and the log holds an ERROR entry.
C11_StartFailureRecorded ==
    \A t \in Commands :
        (/\ AtRest
         /\ op[t] = "cmd_start" /\ resp[t] = "Starting"
         /\ \/ pc[t] = "add_log" /\ nest[t] = "set_error"
            \/ pc[t] = "done" /\ ret[t] \in {"False", "raised"})
        => (/\ last_error # "None"
            /\ \E i \in 1..Len(log_buffer) : log_buffer[i].text[1] = "ERROR")

\* the "mode" field v of a start request names, compared case-insensitively,
\* none of the two active modes
InvalidMode(v) ==
    ~(v[1] = "str" /\ Lower(v[2]) \in {"background", "money_hunter"})

\* thread t reads a start request in this step
ReadsStart(t) ==
    /\ request[t] = <<>> /\ request'[t] # <<>>
    /\ "cmd" \in DOMAIN request'[t] /\ request'[t].cmd = Str("start")

\* the step rejects the request of thread t with the error text e: no
\* asynchronous start, MinerState, the controller and the host as before
Rejects(t, e) ==
    /\ reply'[t] = [ok |-> FALSE, error |-> e]
    /\ pc'[t] = "done"
    /\ UNCHANGED <<stateVars, ctlVars, hostVars>>

\* C12 as stated (SpecSeq): a start command whose mode is none of the two
\* active modes (a missing mode and 'stopped' included) is answered ok:false
\* with the error 'Invalid mode: <mode>', starts nothing and changes nothing.
C12_InvalidModeRejected ==
    [][\A t \in Commands :
         (ReadsStart(t) /\ InvalidMode(request'[t].mode))
         => Rejects(t, "Invalid mode: "
                       \o Lower(Get(request'[t].mode, Str(""))[2]))]_vars

\* C12 as amended (SpecSeq): a start command whose mode is missing, or is a
\* string that names none of the two active modes, is answered ok:false with
\* the error 'Invalid mode: <mode in lower case>'; one whose mode is no
\* string is answered ok:false with 'Command failed: ...'; both start
\* nothing and change nothing.
C12_InvalidModeRejectedAmended ==
    [][\A t \in Commands :
         (ReadsStart(t) /\ InvalidMode(request'[t].mode))
         => LET v == Get(request'[t].mode, Str(""))
            IN  IF v[1] = "str"
                THEN Rejects(t, "Invalid mode: " \o Lower(v[2]))
                ELSE Rejects(t, "Command failed: AttributeError")]_vars

\* a start request with the mode 'Bogus' was rejected while the state was
\* active
C12_Witness ==
    \E t \in Commands :
        /\ request[t] = [cmd |-> Str("start"), mode |-> Str("Bogus")]
        /\ reply[t] = [ok |-> FALSE, error |-> "Invalid mode: bogus"]
        /\ pc[t] = "done" /\ mode \in ActiveModes

\* thread t receives, in this step, bytes that json.loads does not parse
ReadsUnparseable(t) ==
    /\ data[t] = <<>> /\ data'[t] # <<>>
    /\ data'[t] # [bytes |-> ""]
    /\ "raised" \in DOMAIN Loads(data'[t])

\* r is a response that reports an error
IsError(r) == r # <<>> /\ "ok" \in DOMAIN r /\ r.ok = FALSE
              /\ "error" \in DOMAIN r

\* C13 (SpecSeq): a payload that cannot be parsed is answered with
\* {ok:false, error:...}, changes neither MinerState nor the controller, and
\* leaves the server accepting connections.
C13_UnparseableAnswered ==
    [][\A t \in Commands :
         ReadsUnparseable(t)
         => (/\ IsError(reply'[t])
             /\ UNCHANGED <<stateVars, ctlVars>>
             /\ running')]_vars

\* the handler of thread t has parsed a request and has ended
Dispatched(t) == request[t] # <<>> /\ pc[t] = "done"

\* C14 (SpecSeq): every request that parses gets a response with an 'ok'
\* field; a request that is no mapping, has no 'cmd' or names a command that
\* is not registered, whatever the value of 'cmd', gets {ok:false, error}.
C14_DispatchAnswers ==
    \A t \in Commands :
        Dispatched(t)
        => (/\ reply[t] # <<>> /\ "ok" \in DOMAIN reply[t]
            /\ (~IsDict(request[t]) \/ ~Has(request[t], "cmd")
                \/ request[t].cmd \notin Handlers)
               => IsError(reply[t]))

\* C15 (SpecSeq): on a connection on which a message was read the server
\* never writes two responses, and has written exactly one when it closes
\* the connection.
C15_OneResponse ==
    \A t \in Commands :
        (data[t] # <<>> /\ data[t] # [bytes |-> ""])
        => (/\ sent[t] <= 1
            /\ conn[t] = "closed" => sent[t] = 1)

\* C16 (Spec): a status command that has begun always has its next step to
\* take, whoever holds the lock of MinerState and whatever the other threads
\* are in the middle of, and its response says ok:true.
C16_StatusAnswers ==
    \A t \in Threads :
        op[t] = "cmd_status"
        => (/\ pc[t] # "done" => ENABLED StatusStep(t)
            /\ pc[t] = "done" => reply[t] # <<>> /\ reply[t].ok = TRUE)

\* a status was answered with an active mode, which it read while the
\* thread of a start command held the lock (as it still does), and another
\* status is in progress
C16_Witness ==
    \E t, u, w \in Threads :
        /\ op[t] = "cmd_status" /\ pc[t] = "done"
        /\ reply[t].ok = TRUE /\ reply[t].current_mode \in ActiveModes
        /\ lock = u /\ op[u] = "cmd_start" /\ pc[u] = "add_log"
        /\ op[w] = "cmd_status" /\ pc[w] = "st_threads"

\* C17 (Spec): in every status response mining_active equals (current_mode
\* is not 'stopped') and mining_threads is 0 exactly when current_mode is
\* 'stopped'.
C17_StatusNotTorn ==
    \A t \in Threads :
        (op[t] = "cmd_status" /\ pc[t] = "done")
        => (/\ reply[t].mining_active = (reply[t].current_mode # STOPPED)
            /\ (reply[t].mining_threads = 0)
               <=> (reply[t].current_mode = STOPPED))

\* thread t reads a config_set request in this step
ReadsConfigSet(t) ==
    /\ request[t] = <<>> /\ request'[t] # <<>>
    /\ Has(request'[t], "cmd") /\ request'[t].cmd = Str("config_set")

\* C18 (SpecSeq): a config_set whose merged result fails validation is
\* answered ok:false and leaves the stored configuration unchanged, so that
\* a config_get after it returns what a config_get before it returned.
C18_InvalidConfigNotStored ==
    [][\A t \in Commands :
         (/\ ReadsConfigSet(t)
          /\ ~is_valid(Merged(request'[t], stored_config))[1])
         => (/\ IsError(reply'[t])
             /\ stored_config' = stored_config
             /\ HandleConfigGet(stored_config')
                = HandleConfigGet(stored_config))]_vars

\* a config_set that would have taken the port from the pool URL of a valid
\* stored configuration was refused
C18_Witness ==
    \E t \in Commands :
        /\ pc[t] = "done" /\ Has(request[t], "pool_url")
        /\ request[t].cmd = Str("config_set")
        /\ request[t].pool_url = Str("pool.supportxmr.com")
        /\ reply[t] = [ok |-> FALSE,
                       error |-> "Invalid configuration: "
                                 \o "Pool URL must include port"]
        /\ stored_config = Configured

\* the handler of thread t has answered a ping
Pinged(t) ==
    /\ Dispatched(t) /\ Has(request[t], "cmd")
    /\ request[t].cmd = Str("ping")

\* C19 as stated (SpecSeq): every ping is answered with exactly
\* {ok:true, message:'pong', version:'1.0.0'}.
C19_PingVersion ==
    \A t \in Commands :
        Pinged(t)
        => reply[t] = [ok |-> TRUE, message |-> "pong", version |-> "1.0.0"]

\* C19 as amended (SpecSeq): every ping is answered with exactly
\* {ok:true, message:'pong', daemon_version:'1.0.0'}, whatever other fields
\* the request carries and whatever state the daemon is in.
C19_PingDaemonVersion ==
    \A t \in Commands :
        Pinged(t)
        => reply[t] = [ok |-> TRUE, message |-> "pong",
                       daemon_version |-> "1.0.0"]

\* a ping that carries a mode was answered while the thread of a start
\* command held the lock of MinerState
C19_Witness ==
    \E t \in Commands :
        /\ Pinged(t) /\ Has(request[t], "mode")
        /\ reply[t] = [ok |-> TRUE, message |-> "pong",
                       daemon_version |-> "1.0.0"]
        /\ lock # 0 /\ mode \in ActiveModes

\* C20 (SpecSeq): in every shutdown the controller's shutdown runs to its
\* end and the command server is stopped after it: once the daemon has come
\* to rest the shutdown has ended with the server stopped, and the server
\* is never stopped but at the end of a shutdown.
C20_ShutdownStopsServer ==
    /\ \A t \in Commands :
         (op[t] = "shutdown" /\ AtRest) => (pc[t] = "done" /\ ~running)
    /\ ~running => \E t \in Commands :
                      /\ op[t] = "shutdown"
                      /\ pc[t] \in {"sd_unlink", "sd_join", "done"}

\* C21 (SpecBoot): when the probe of the worker binary has failed, the
\* construction of the controller and the start of the daemon go on to
\* their end (the thread always has its next step to take), and at the end
\* the error is recorded in last_error and the command server runs.
C21_ProbeFailureBoots ==
    \A t \in Commands :
        (op[t] = "boot" /\ ret[t] = "False")
        => (/\ pc[t] # "done"
               => ENABLED (BootSetError(t) \/ AddLog(t) \/ BootStart(t))
            /\ pc[t] = "done" => (last_error # "None" /\ running))

\* C22 (SpecSeq): a full stop in which a step has failed still runs its
\* other steps: it never comes to rest in its failure handling, or returns
\* False, with the handle still held, MinerState not STOPPED or the
\* worker's config file still there.
C22_FullStopCleansUp ==
    \A t \in Commands :
        (/\ AtRest /\ op[t] = "cmd_stop"
         /\ \/ pc[t] \in {"sp_except", "sp_false"}
            \/ pc[t] = "done" /\ ret[t] = "False")
        => (xmrig_process = 0 /\ mode = STOPPED /\ ~cfg_file)


\* C23 (SpecMon): once the stop flag is set, a monitor that is at its read
\* of the worker's output goes on without anything from the worker: it does
\* not wait for a line that a living, silent worker never writes
C23_MonitorReadBounded ==
    \A t \in Threads :
        (op[t] = "monitor" /\ pc[t] = "mn_read" /\ stop_monitoring)
        => ENABLED MonReadEOF(t)


\* C24 (SpecCalc): on n >= 1 cores calculate_threads_for_mode returns
\* (max(1, floor(n/2)), 1) for BACKGROUND, (max(1, floor(4n/5)), 3) for
\* MONEY_HUNTER and (0, 0) for STOPPED: 8 cores give 4 and 6, 1 core gives 1
\* and 1, and an active mode gets at least 1 and at most n threads
C24_ThreadShares ==
    \A t \in Callers :
        op[t] = "calc" =>
            LET n == total_threads
                thr == ret[t][1]
                pri == ret[t][2]
            IN  /\ tmode[t] = STOPPED => thr = 0 /\ pri = 0
                /\ tmode[t] = BACKGROUND =>
                       /\ pri = 1
                       /\ n >= 2 => (2 * thr <= n /\ n < 2 * thr + 2)
                       /\ n = 8 => thr = 4
                /\ tmode[t] = MONEY_HUNTER =>
                       /\ pri = 3
                       /\ n >= 2 => (5 * thr <= 4 * n /\ 4 * n < 5 * thr + 5)
                       /\ n = 8 => thr = 6
                /\ tmode[t] \in ActiveModes =>
                       /\ thr >= 1 /\ thr <= n
                       /\ n = 1 => thr = 1

\* the share of a single core, where the floor is 0, has been computed
C24_Witness ==
    \E t \in Callers :
        /\ op[t] = "calc" /\ pc[t] = "done"
        /\ total_threads = 1 /\ tmode[t] = MONEY_HUNTER /\ ret[t] = <<1, 3>>


\* C25 (Spec): in every state of the daemon the active thread count is 0
\* and the start timestamp is absent exactly when the mode is STOPPED; in an
\* active mode the count is positive and the timestamp present
C25_StoppedIffCleared ==
    /\ (mode = STOPPED) <=> (threads_active = 0)
    /\ (mode = STOPPED) <=> (start_time = "None")
    /\ mode \in ActiveModes => (threads_active > 0 /\ start_time = "set")

\* a start has written the fields of an active mode
C25_Witness ==
    \E t \in Threads :
        /\ pc[t] = "add_log" /\ nest[t] = "start_mining"
        /\ mode = MONEY_HUNTER
        /\ threads_active = calculate_threads_for_mode(MONEY_HUNTER)[1]
        /\ start_time = "set"


\* C26 (SpecState): get_status_dict, called in any state, returns: the read
\* of is_mining that it makes for its snapshot can be made
C26_SnapshotReturns ==
    \A t \in Callers :
        (op[t] = "get_status_dict" /\ pc[t] = "is_mining")
        => ENABLED PropIsMining(t)


\* C27 (SpecSeq): when the daemon has come to rest after a start command
\* with an active mode, after which no command was sent, its call of
\* XMrigController.start_mining has returned, and either it returned True,
\* the controller holds the handle of the worker it launched, MinerState has
\* the requested mode and that worker's pid and a monitor was started, or it
\* returned False, last_error is set and no worker launched by it is alive
\* without MinerState having its pid
C27_StartReturnsWithOutcome ==
    \A t \in Commands :
        (/\ AtRest
         /\ op[t] = "cmd_start" /\ resp[t] = "Starting"
         /\ \A u \in Commands : u > t => pc[u] = "idle")
        => /\ pc[t] = "done"
           /\ \/ /\ ret[t] = "True"
                 /\ xmrig_process = t /\ proc[t] # "none"
                 /\ mode = tmode[t] /\ xmrig_pid = t
                 /\ monitor_thread # 0
              \/ /\ ret[t] = "False"
                 /\ last_error # "None"
                 /\ proc[t] = "alive" => xmrig_pid = t


\* C28 (SpecSeq): while the server runs, whatever connections are open with
\* their handlers not yet ended (a client that sends nothing, a handler in
\* the middle of a full stop or waiting for the lock), a further connection
\* is accepted and a ping sent on it is answered
C28_StalledHandlerBlocksNoOne ==
    \A t \in Commands :
        (/\ running /\ pc[t] = "idle"
         /\ \A u \in AllThreads : u < t => pc[u] # "idle"
         /\ \E u \in Commands : conn[u] = "open" /\ pc[u] \notin {"idle", "done"})
        => ENABLED (/\ ClientCommand(t)
                    /\ request'[t] = [cmd |-> Str("ping")]
                    /\ reply'[t] = [ok |-> TRUE, message |-> "pong",
                                    daemon_version |-> "1.0.0"])

\* a ping was answered on a later connection while the handler of a silent
\* client was still in its recv
C28_Witness ==
    \E u, t \in Commands :
        /\ u < t
        /\ pc[u] = "recv" /\ conn[u] = "open" /\ sent[u] = 0
        /\ pc[t] = "done" /\ request[t] = [cmd |-> Str("ping")]
        /\ reply[t] = [ok |-> TRUE, message |-> "pong",
                       daemon_version |-> "1.0.0"]


\* C30 (SpecSeq): when the worker launched by a start command has ended on
\* its own, no other command was sent and the daemon has come to rest,
\* MinerState is STOPPED: mode stopped, pid cleared, 0 threads
C30_WorkerExitReconciled ==
    \A t \in Commands :
        (/\ AtRest
         /\ op[t] = "cmd_start" /\ proc[t] = "exited"
         /\ \A u \in Commands : u # t => pc[u] = "idle")
        => (mode = STOPPED /\ xmrig_pid = 0 /\ threads_active = 0)


\* C31 (Spec): in a full stop the force-kill follows only the graceful wait,
\* and only when the worker that was sent the terminate signal has not
\* exited in it; the graceful wait follows only the terminate signal; and
\* the call that sets MinerState to STOPPED follows only the orphan sweep
C31_StopEscalatesInOrder ==
    [][\A t \in Threads :
         /\ (pc'[t] = "sp_kill" /\ pc[t] # "sp_kill")
            => (pc[t] = "sp_wait" /\ proc[tpid[t]] = "alive")
         /\ (pc'[t] = "sp_wait" /\ pc[t] # "sp_wait") => pc[t] = "sp_term"
         /\ (pc'[t] = "sp_stop" /\ pc[t] # "sp_stop") => pc[t] = "sp_pkill"]_vars


\* C32 (SpecSeq): once the daemon has come to rest after a shutdown was
\* begun, XMrigController.shutdown has run its orphan sweep and returned
\* without an exception, MinerState is STOPPED and the controller holds no
\* worker handle
C32_ShutdownSweepsAlways ==
    \A t \in Commands :
        (op[t] = "shutdown" /\ AtRest)
        => (/\ pc[t] = "done" /\ ret[t] # "raised"
            /\ mode = STOPPED /\ xmrig_process = 0)


\* C33 (SpecSeq): no step of the handler of a ping, status, system_info,
\* config_get or config_set command changes a field of MinerState, its lock,
\* or the controller's handle, monitor thread or stop flag
C33_QueriesChangeNothing ==
    [][\A t \in Commands :
         (/\ pc'[t] # pc[t]
          /\ request'[t] # <<>> /\ IsDict(request'[t]) /\ Has(request'[t], "cmd")
          /\ request'[t].cmd \in {Str("ping"), Str("status"), Str("system_info"),
                                  Str("config_get"), Str("config_set")})
         => UNCHANGED <<stateVars, ctlVars>>]_vars

\* a config_set has stored a new configuration while a worker was tracked
\* and MinerState was in an active mode
C33_Witness ==
    \E t \in Commands :
        /\ pc[t] = "done" /\ request[t] # <<>> /\ IsDict(request[t])
        /\ Has(request[t], "cmd") /\ request[t].cmd = Str("config_set")
        /\ reply[t] = [ok |-> TRUE, message |-> "Configuration updated"]
        /\ xmrig_process # 0 /\ mode \in ActiveModes


\* C34 (SpecSeq): IPCServer.stop always has its next step to take, whatever
\* the client handler threads are doing; once it has returned the accept
\* loop takes no connection and the file of the socket does not exist
C34_ServerStopTerminates ==
    \A t \in Commands :
        /\ pc[t] \in {"sd_server", "sd_unlink", "sd_join"} => ENABLED ServerStop(t)
        /\ (op[t] = "shutdown" /\ pc[t] = "done" /\ ret[t] # "raised")
           => /\ ~running /\ ~socket_file
              /\ \A u \in Commands :
                   ~ENABLED (\/ ClientCommand(u) \/ SilentConnect(u)
                             \/ StatusCommand(u) \/ StartCommand(u)
                             \/ StopCommand(u))

\* stop has returned while the handler of a silent client was still in recv
C34_Witness ==
    \E t, u \in Commands :
        /\ op[t] = "shutdown" /\ pc[t] = "done" /\ ~socket_file
        /\ op[u] = "client" /\ pc[u] = "recv" /\ conn[u] = "open"


\* C35 (SpecDown): once the shutdown of the daemon has completed, no worker
\* launched by the daemon is running, then or later
C35_NoWorkerAfterShutdown ==
    \A t \in Threads :
        (op[t] = "shutdown" /\ pc[t] = "done" /\ ret[t] # "raised")
        => \A p \in Threads : proc[p] # "alive"


\* C36 (SpecSeq): whenever no thread has a step to take, MinerState and the
\* controller agree: the mode is STOPPED exactly when the controller holds
\* no handle, and a held handle's pid is the pid MinerState has
C36_StateAgreesWithHandle ==
    AtRest => /\ (mode = STOPPED) <=> (xmrig_process = 0)
              /\ xmrig_process # 0 => xmrig_pid = xmrig_process


\* C37 (SpecSeq): a start that found a worker running (tpid is the pid it
\* read in _quick_stop_mining) validates the configuration and launches
\* only when that worker has ended and MinerState is STOPPED, and it never
\* comes to rest inside its quick stop
C37_QuickStopBeforeValidation ==
    \A t \in Commands :
        /\ (/\ op[t] = "cmd_start" /\ tpid[t] # 0
            /\ pc[t] \in {"cs_config", "cs_invalid", "cs_popen"})
           => (mode = STOPPED /\ proc[tpid[t]] = "exited")
        /\ (AtRest /\ op[t] = "cmd_start")
           => pc[t] \notin {"qs_stop", "qs_err"}


\* C38 (SpecSeq): when a stop command is answered ok:true, the generated
\* worker configuration (xmrig-runtime.json) does not exist
C38_StopRemovesConfig ==
    [][\A t \in Commands :
         (/\ op[t] = "cmd_stop" /\ reply[t] = <<>>
          /\ reply'[t] = [ok |-> TRUE, message |-> "Mining stopped"])
         => ~cfg_file']_vars


\* C39 (SpecSeq): a stop command or a shutdown that has ended the running
\* worker (tpid is the pid it signalled) does not come to rest before
\* MinerState is STOPPED and the log has the entry "Mining stopped" with the
\* caller's reason, and the log has no entry "Mining stopped" with
\* "Process terminated unexpectedly" for it
C39_StopLoggedWithReason ==
    \A t \in Commands :
        (/\ AtRest /\ op[t] \in {"cmd_stop", "shutdown"}
         /\ tpid[t] # 0 /\ proc[tpid[t]] = "exited")
        => /\ mode = STOPPED
           /\ \E i \in 1..Len(log_buffer) :
                log_buffer[i].text =
                    <<"Mining stopped",
                      IF op[t] = "shutdown" THEN "Daemon shutdown"
                      ELSE "User requested via IPC">>
           /\ \A i \in 1..Len(log_buffer) :
                log_buffer[i].text #
                    <<"Mining stopped", "Process terminated unexpectedly">>


\* C40 (Spec): when two start commands with different active modes were
\* acknowledged, t before u, no further command was sent, no launch has
\* failed and no thread has a step to take, MinerState has the mode of u with its thread count, the
\* controller holds the worker launched for u, and no other worker runs
C40_LaterStartWins ==
    \A t, u \in Threads :
        (/\ AtRest /\ t < u
         /\ op[t] = "cmd_start" /\ resp[t] = "Starting"
         /\ op[u] = "cmd_start" /\ resp[u] = "Starting"
         /\ Lower(request[t].mode[2]) # Lower(request[u].mode[2])
         /\ \A w \in Threads \ {t, u} : pc[w] = "idle"
         /\ last_error = "None"
         /\ {pc[t], pc[u]} \cap {"cs_invalid", "cs_except"} = {})
        => /\ mode = Lower(request[u].mode[2])
           /\ threads_active = calculate_threads_for_mode(mode)[1]
           /\ xmrig_process = u /\ xmrig_pid = u
           /\ \A p \in Threads \ {u} : proc[p] # "alive"

====
